---- MODULE Spec2Model ----
(***************************************************************************)
(* A model of the real-time orchestration layer of the anomaly monitor:    *)
(*   - BufferedVideoStream  (src/utils/camera_stream.py)                   *)
(*   - StateWatcher         (src/utils/state_watcher.py)                   *)
(*   - ApiController        (src/utils/api_controller.py)                  *)
(*   - run_inference        (src/model/inference_loop.py)                  *)
(* Each thread is a program counter over the statements of its source; one *)
(* action is one statement that touches state shared with another thread.  *)
(***************************************************************************)
EXTENDS Integers, Sequences, FiniteSets, TLC

\* ------------------------------------------------------------------------
\* Bounds of the model
\* ------------------------------------------------------------------------
\* Frames the camera can deliver in one run (frame k is the k-th captured).
MaxFrames == 3
\* Largest buffer_size a stream is constructed with.
MaxBufferSize == 2
\* Largest value the retry counter is driven to (and largest max_retries).
RetryCap == 2
\* Polls of one watcher that are counted, and on_change calls that are
\* recorded (the watcher goes on polling after them).
MaxPolls == 3
\* Largest number of consecutive polls that raise.
MaxFailures == 2
\* Tokens the server issues after the one obtained at construction.
MaxTokens == 3
\* Calls each thread makes when two threads use one controller.
MaxCalls == 1
\* Largest page size list_images is called with (besides its default).
MaxTake == 2
\* Cameras in config.yaml.
NumCameras == 2
\* Page requests the server has an answer prepared for; it answers every
\* later one with an empty list.
MaxPages == 3
\* Contours findContours returns for one score map.
MaxContours == 2

\* ------------------------------------------------------------------------
\* Program constants
\* ------------------------------------------------------------------------
\* last_frame = None / grab() returned None / read() returned None.
NoFrame == 0
\* max_retries = None (unlimited retries).
NoLimit == -1
\* run_inference's detect_threshold (0.8), in hundredths.
DetectThreshold == 80
\* score = None: no anomaly score in this tick.
NoScore == -1
\* self.token = None.
NoToken == 0
\* no session object (a caller with no request under way).
NoSession == 0
\* Retry(total=3, ...): retries the session's adapter makes per send.
AdapterTotal == 3
\* delay = min(max(delay, 1), 10): the bounds of _request's sleep on a 429.
MinDelay == 1
MaxDelay == 10
\* list_images' default page size.
DefaultTake == 500
\* reconnect_backoff's default (0.5, 8.0) and the jitter bound 0.3, in tenths
\* of a second.
DefaultLo == 5
DefaultHi == 80
JitterBound == 3
\* extract_anomaly_polygon's defaults: tau_strong (0.8) in hundredths,
\* min_area_frac (0.001) in thousandths, min_box_frac (0.06) in hundredths,
\* min_box_px
TauStrong == 80
MinAreaFrac == 1
MinBoxFrac == 6
MinBoxPx == 32

Max(a, b) == IF a >= b THEN a ELSE b
Min(a, b) == IF a <= b THEN a ELSE b

VARIABLES
    \* ---- BufferedVideoStream: constructor arguments
    buffer_size,     \* maxsize of frame_buffer
    max_retries,     \* NoLimit or a number
    reconnect_backoff, \* (lo, hi), in tenths of a second
    \* ---- BufferedVideoStream: fields
    frame_buffer,    \* queue.Queue, oldest first
    stop_event,      \* _stop_event
    pause_event,     \* _pause_event
    last_frame,      \* last_frame (NoFrame = None)
    retry_count,     \* _retry_count
    \* ---- capture backend
    is_connected,    \* backend.is_connected
    cap,             \* backend.cap is not None (the device handle is open)
    \* ---- the stream's background thread (run)
    pc,              \* statement the thread is at
    frame,           \* run's local variable frame
    captured,        \* number of frames the camera has delivered so far
    \* ---- the thread that calls the stream's public methods
    cpc,             \* statement the caller is at
    rl,              \* locals of the read() in progress
    \* ---- history (observation only, never read by the program)
    obs,             \* what the caller's last completed call returned
    maxRead,         \* newest frame any earlier read() returned
    pausedG,         \* pause() has returned and resume() was not called since
    nPub,            \* frames enqueued since the last read/pause/stop (saturating)
    lastPub,         \* newest frame enqueued
    connFailing,     \* the last connect attempt failed, none succeeded since
    dropped,         \* a captured frame was discarded because the buffer was full
    evicted,         \* frame the loop evicted in the iteration under way
    slept,           \* the backoff sleeps since the last successful connect
    marks,           \* frames captured when pause() / resume() was last called
    \* ---- which unit of the system the behaviour exercises
    unit,
    \* ---- StateWatcher: constructor argument
    on_change,       \* "none", or how the callback behaves: "returns", "raises"
    \* ---- StateWatcher: fields
    w_state,         \* _state
    w_lock,          \* _lock: "free" or the thread holding it
    w_stop_event,    \* _stop_event
    wake_event,      \* _wake_event
    consecutive_failures,
    last_error,      \* last_error is not None
    last_update_ts,  \* last_update_ts is not 0.0
    \* ---- the watcher's thread (run)
    wpc,             \* statement the thread is at
    new_state,       \* _poll_once's local new_state
    changed,         \* _set_state's local changed
    polls,           \* polls issued so far (saturating)
    \* ---- the thread that calls the watcher's public methods
    wcpc,
    \* ---- history
    w_obs,           \* what the caller's last completed call returned
    lastGood,        \* value the most recent successful poll obtained
    cb_calls,        \* arguments on_change was invoked with, in order
    cb_seen,         \* what get_state() returned to the latest callback
    changes,         \* the values _state changed to, in order
    poll_good,       \* the state request of the most recent poll succeeded
    \* ---- run_inference: argument and locals
    o_stop_event,    \* stop_event
    opc,             \* statement the orchestrator's loop is at
    was_running,
    o_frame,         \* frame
    o_score,         \* score, in hundredths (NoScore = None)
    o_class,         \* pred_class_name is not None
    \* ---- history
    tick,            \* what the tick under way has done so far
    \* ---- ApiController: fields
    token,           \* self.token (NoToken = None; token k is the k-th issued)
    session,         \* self.session: the session object it refers to
    headers,         \* per session object, its Authorization header
    closed,          \* session objects close() was called on
    auth_lock,       \* _auth_lock: "free" or the caller holding it
    \* ---- the server
    issued,          \* tokens issued so far
    \* ---- the threads inside ApiController
    callers,         \* the threads that use the controller
    hpc,             \* per caller, the statement it is at
    call,            \* per caller, the public operation under way
    send,            \* per caller, the session _request's `send` is bound to
    resp,            \* per caller, _request's local resp
    tries,           \* per caller, retries the adapter made in this send
    calls,           \* per caller, calls begun (counted for two threads)
    \* ---- history
    hist,            \* per caller, what the _request under way has done
    ret,             \* per caller, what its last completed call returned
    \* ---- ApiController.list_images
    take,            \* its argument
    skip,            \* skip
    all_items,       \* all_items
    lpc,             \* where the call is: "idle", "page", "done", "returned"
    l_ret,           \* the list it returned
    script,          \* the answers the server has prepared, in order
    requested,       \* history: the skip of every page request, in order
    \* ---- extract_anomaly_polygon: arguments and locals
    frame_shape,     \* (H, W)
    maxLoc,          \* (x, y) of the score map's global peak
    cnts,            \* the contours findContours returned, in order
    e_i,             \* the contour the for loop is at
    best,            \* index in cnts of best's contour (0: best is None)
    epc,             \* where the call is: "idle", "for", "done"
    poly,            \* what the call returned
    \* ---- main
    m_pc,            \* statement the main thread is at
    m_next,          \* the camera the for loop is at
    stop_ev,         \* stop_ev
    cam_fault,       \* per camera, what goes wrong when it is brought up
    cam_pc,          \* per camera, where its inference thread is
    \* ---- history
    cancelled,       \* cameras whose orchestrator was cancelled
    interrupted      \* the main thread received KeyboardInterrupt

cfgvars == <<buffer_size, max_retries, reconnect_backoff>>
svars   == <<frame_buffer, stop_event, pause_event, last_frame, retry_count>>
bvars   == <<is_connected, cap>>
lvars   == <<pc, frame, captured>>
cvars   == <<cpc, rl>>
hvars   == <<obs, maxRead, pausedG, nPub, lastPub, connFailing, dropped,
             evicted, marks>>
streamvars == <<cfgvars, svars, bvars, lvars, cvars, hvars, slept>>

wcfg    == <<on_change>>
wfields == <<w_state, w_lock, w_stop_event, wake_event, consecutive_failures,
             last_error, last_update_ts>>
wthread == <<wpc, new_state, changed, polls>>
whist   == <<w_obs, lastGood, cb_calls, cb_seen, changes, poll_good>>
watchervars == <<wcfg, wfields, wthread, wcpc, whist>>

orchvars == <<o_stop_event, opc, was_running, o_frame, o_score, o_class,
              tick>>

httpvars == <<token, session, headers, closed, auth_lock, issued, callers,
              hpc, call, send, resp, tries, calls, hist, ret>>

pagevars == <<take, skip, all_items, lpc, l_ret, script, requested>>

mainvars == <<m_pc, m_next, stop_ev, cam_fault, cam_pc, cancelled,
              interrupted>>

extractvars == <<frame_shape, maxLoc, cnts, e_i, best, epc, poly>>

vars == <<unit, streamvars, watchervars, orchvars, httpvars, pagevars,
          mainvars, extractvars>>

\* what an action of one unit leaves alone
notStream  == <<unit, watchervars, orchvars, httpvars, pagevars, mainvars,
               extractvars>>
notWatcher == <<unit, streamvars, orchvars, httpvars, pagevars, mainvars,
               extractvars>>
notHttp    == <<unit, streamvars, watchervars, orchvars, pagevars, mainvars,
               extractvars>>
notPages   == <<unit, streamvars, watchervars, orchvars, httpvars, mainvars,
               extractvars>>
notMain    == <<unit, streamvars, watchervars, orchvars, httpvars, pagevars,
               extractvars>>
notExtract == <<unit, streamvars, watchervars, orchvars, httpvars, pagevars,
                mainvars>>

\* ------------------------------------------------------------------------
\* BufferedVideoStream.__init__
\* ------------------------------------------------------------------------
NoRead == [t |-> 0, n |-> 0, lo |-> NoFrame, noconn |-> FALSE]

NoObs == [op |-> "none", val |-> NoFrame, raised |-> FALSE, alive |-> FALSE,
          paused |-> FALSE, t |-> 0, n |-> 0, lo |-> NoFrame, noconn |-> FALSE,
          prev |-> NoFrame, pub |-> NoFrame]

\* neither pause() nor resume() was called yet; resume is reset by pause().
\* The marks are kept only in the behaviours that inspect them (on).
NoMark == -1
NoMarks == [on |-> FALSE, pause |-> NoMark, resume |-> NoMark]

\* no _sleep_with_backoff() yet: k connect failures in a row, the base of
\* the latest sleep after one, the base of the one before, the jitter of the
\* sleep under way, the base of the mini sleep under way
NoSleep == [k |-> 0, base |-> 0, prev |-> 0, jitter |-> 0, mini |-> 0]

\* the reconnect_backoff pairs streams are constructed with: the default,
\* and one whose cap the second failure reaches
Backoffs == {<<DefaultLo, DefaultHi>>, <<DefaultLo, DefaultLo + 3>>}

RECURSIVE Pow2(_)
Pow2(n) == IF n = 0 THEN 1 ELSE 2 * Pow2(n - 1)

\* _sleep_with_backoff(): base, without the cap
BackoffBase_Uncapped(n) == reconnect_backoff[1] * Pow2(Max(0, n - 1))

\* _sleep_with_backoff(): base = min(hi, lo * (2 ** max(0, retry_count - 1)))
\* for retry_count = n
BackoffBase(n) ==
    Min(reconnect_backoff[2], reconnect_backoff[1] * Pow2(Max(0, n - 1)))

\* _sleep_with_backoff(mini): base = lo if mini else min(hi, ...)
SleepBase(mini, n) == IF mini THEN reconnect_backoff[1] ELSE BackoffBase(n)

\* random.random() * 0.3
Jitters == 0..(JitterBound - 1)

StreamFields ==
    /\ buffer_size \in 1..MaxBufferSize
    /\ max_retries \in {NoLimit} \cup (1..RetryCap)
    /\ reconnect_backoff \in Backoffs
    /\ slept = NoSleep
    /\ frame_buffer = <<>>
    /\ stop_event = FALSE
    /\ pause_event \in BOOLEAN          \* start_paused
    /\ last_frame = NoFrame
    /\ retry_count = 0
    /\ is_connected = FALSE
    /\ cap = FALSE
    /\ pc = "unstarted"
    /\ frame = NoFrame
    /\ captured = 0
    /\ cpc = "idle"
    /\ rl = NoRead
    /\ obs = NoObs
    /\ maxRead = NoFrame
    /\ pausedG = FALSE
    /\ nPub = 0
    /\ lastPub = NoFrame
    /\ connFailing = FALSE
    /\ dropped = FALSE
    /\ evicted = NoFrame

StreamInit == StreamFields /\ marks = NoMarks

\* threading.Thread.is_alive()
IsAlive == pc \notin {"unstarted", "done", "crashed"}

\* the retry budget is configured and used up (run's two `break` conditions)
Exhausted(n) == max_retries # NoLimit /\ n >= max_retries

\* ------------------------------------------------------------------------
\* The capture backend (_OpenCVBackend / _MvSdkBackend)
\* ------------------------------------------------------------------------
\* backend.close(): the handle is released, is_connected = False.
BackendClose ==
    /\ cap' = FALSE
    /\ is_connected' = FALSE

\* ------------------------------------------------------------------------
\* BufferedVideoStream.run, statement by statement
\* ------------------------------------------------------------------------
\* while not self._stop_event.is_set():
\* (a faulty variant: a paused loop does not look at the stop signal)
LoopWhile_PausedIgnoresStop ==
    /\ pc = "while"
    /\ pc' = IF stop_event /\ ~pause_event THEN "cleanup" ELSE "check_pause"
    /\ UNCHANGED <<notStream, cfgvars, slept, svars, bvars, frame, captured, cvars, hvars>>

LoopWhile ==
    /\ pc = "while"
    /\ pc' = IF stop_event THEN "cleanup" ELSE "check_pause"
    /\ UNCHANGED <<notStream, cfgvars, slept, svars, bvars, frame, captured, cvars, hvars>>

\* if self._pause_event.is_set(): time.sleep(0.1); continue
\* (a faulty variant: the loop does not look at the pause signal)
LoopCheckPause_IgnoresPause ==
    /\ pc = "check_pause"
    /\ pc' = "check_conn"
    /\ UNCHANGED <<notStream, cfgvars, slept, svars, bvars, frame, captured, cvars, hvars>>

LoopCheckPause ==
    /\ pc = "check_pause"
    /\ pc' = IF pause_event THEN "pause_sleep" ELSE "check_conn"
    /\ UNCHANGED <<notStream, cfgvars, slept, svars, bvars, frame, captured, cvars, hvars>>

\* the end of a sleep: time.sleep(0.1) when paused, _sleep_with_backoff(),
\* _sleep_with_backoff(mini=True), time.sleep(0.001); then `continue`
LoopSleep ==
    /\ pc \in {"pause_sleep", "backoff", "mini_backoff", "yield"}
    /\ pc' = "while"
    /\ slept' = [slept EXCEPT !.jitter = 0, !.mini = 0]
    /\ UNCHANGED <<notStream, cfgvars, svars, bvars, frame, captured, cvars, hvars>>

\* if not self.backend.is_connected:
LoopCheckConn ==
    /\ pc = "check_conn"
    /\ pc' = IF ~is_connected THEN "connect" ELSE "grab"
    /\ UNCHANGED <<notStream, cfgvars, slept, svars, bvars, frame, captured, cvars, hvars>>

\* backend.connect() begins with self.close()
LoopConnectClose ==
    /\ pc = "connect"
    /\ BackendClose
    /\ pc' = "connect_open"
    /\ UNCHANGED <<notStream, cfgvars, slept, svars, frame, captured, cvars, hvars>>

\* backend.connect() opened the device
\* (a faulty variant: _connect leaves the retry counter as it is)
LoopConnectOk_KeepsCount ==
    /\ pc = "connect_open"
    /\ cap' = TRUE
    /\ is_connected' = TRUE
    /\ connFailing' = FALSE
    /\ rl' = [rl EXCEPT !.noconn = FALSE]
    /\ slept' = NoSleep
    /\ pc' = "grab"
    /\ UNCHANGED <<notStream, cfgvars, svars, frame, captured, cpc, obs,
                   maxRead, marks, pausedG, nPub, lastPub, dropped, evicted>>

\* backend.connect() opened the device: _connect resets the retry counter
LoopConnectOk ==
    /\ pc = "connect_open"
    /\ cap' = TRUE
    /\ is_connected' = TRUE
    /\ retry_count' = 0
    /\ connFailing' = FALSE
    /\ rl' = [rl EXCEPT !.noconn = FALSE]
    /\ slept' = NoSleep
    /\ pc' = "grab"
    /\ UNCHANGED <<notStream, cfgvars, frame_buffer, stop_event, pause_event, last_frame,
                   frame, captured, cpc, obs, maxRead, marks, pausedG, nPub, lastPub,
                   dropped, evicted>>

\* backend.connect() failed: count the failure, give up when the budget is
\* used up, else back off and retry
LoopConnectFail ==
    /\ pc = "connect_open"
    /\ retry_count < RetryCap
    /\ is_connected' = FALSE
    /\ UNCHANGED cap
    /\ retry_count' = retry_count + 1
    /\ connFailing' = TRUE
    /\ IF Exhausted(retry_count + 1)
         THEN /\ pc' = "cleanup"
              /\ slept' = [slept EXCEPT !.k = @ + 1]
         ELSE /\ pc' = "backoff"
              /\ \E j \in Jitters :
                    slept' = [k |-> slept.k + 1,
                              base |-> SleepBase(FALSE, retry_count + 1),
                              prev |-> slept.base, jitter |-> j,
                              mini |-> 0]
    /\ UNCHANGED <<notStream, cfgvars, frame_buffer, stop_event, pause_event, last_frame,
                   frame, captured, cvars, obs, maxRead, marks, pausedG, nPub, lastPub,
                   dropped, evicted>>

\* backend.grab(), its guard: `if not self.cap: return None`
LoopGrab ==
    /\ pc = "grab"
    /\ IF cap THEN /\ pc' = "grab_read"
                   /\ UNCHANGED frame
              ELSE /\ pc' = "grab_none"
                   /\ frame' = NoFrame
    /\ UNCHANGED <<notStream, cfgvars, slept, svars, bvars, captured, cvars, hvars>>

\* backend.grab(), the device read. The handle may have been released by a
\* concurrent stop() since the guard: the read then fails on a released
\* handle (the thread dies with the exception, or the read reports no frame).
LoopGrabRead ==
    /\ pc = "grab_read"
    /\ \/ /\ cap                       \* a frame arrived
          /\ captured < MaxFrames
          /\ captured' = captured + 1
          /\ frame' = captured + 1
          /\ pc' = "push_full"
          /\ UNCHANGED bvars
       \/ /\ cap                       \* read failed: connection lost
          /\ is_connected' = FALSE
          /\ frame' = NoFrame
          /\ pc' = "grab_none"
          /\ UNCHANGED <<cap, captured>>
       \/ /\ cap                       \* no frame within the timeout
          /\ frame' = NoFrame
          /\ pc' = "grab_none"
          /\ UNCHANGED <<bvars, captured>>
       \/ /\ ~cap                      \* released under the reader
          /\ frame' = NoFrame
          /\ pc' \in {"grab_none", "crashed"}
          /\ UNCHANGED <<bvars, captured>>
    /\ UNCHANGED <<notStream, cfgvars, slept, svars, cvars, hvars>>

\* if frame is None: reconnect when the backend reports disconnected, else
\* yield and try again
LoopGrabNone ==
    /\ pc = "grab_none"
    /\ IF ~is_connected
         THEN /\ retry_count' = retry_count + 1
              /\ BackendClose
              /\ IF Exhausted(retry_count + 1)
                   THEN /\ pc' = "cleanup"
                        /\ UNCHANGED slept
                   ELSE /\ pc' = "mini_backoff"
                        /\ \E j \in Jitters :
                              slept' = [slept EXCEPT
                                          !.mini = SleepBase(TRUE, retry_count + 1),
                                          !.jitter = j]
         ELSE /\ pc' = "yield"
              /\ UNCHANGED <<retry_count, bvars, slept>>
    /\ UNCHANGED <<notStream, cfgvars, frame_buffer, stop_event, pause_event, last_frame,
                   frame, captured, cvars, hvars>>

\* if self.frame_buffer.full():
\* (a faulty variant: the loop does not make room in a full buffer)
LoopPushFull_NoEviction ==
    /\ pc = "push_full"
    /\ pc' = "push_put"
    /\ UNCHANGED <<notStream, cfgvars, slept, svars, bvars, frame, captured, cvars, hvars>>

LoopPushFull ==
    /\ pc = "push_full"
    /\ pc' = IF Len(frame_buffer) >= buffer_size THEN "push_get" ELSE "push_put"
    /\ UNCHANGED <<notStream, cfgvars, slept, svars, bvars, frame, captured, cvars, hvars>>

\* self.frame_buffer.get_nowait()   (queue.Empty is swallowed)
LoopPushGet ==
    /\ pc = "push_get"
    /\ IF frame_buffer = <<>>
         THEN UNCHANGED <<frame_buffer, evicted>>
         ELSE /\ frame_buffer' = Tail(frame_buffer)
              /\ evicted' = Head(frame_buffer)
    /\ pc' = "push_put"
    /\ UNCHANGED <<notStream, cfgvars, slept, stop_event, pause_event, last_frame, retry_count,
                   bvars, frame, captured, cvars, obs, maxRead, marks, pausedG, nPub,
                   lastPub, connFailing, dropped>>

\* self.frame_buffer.put_nowait(frame)   (queue.Full is swallowed: the frame
\* is then lost)
LoopPushPut ==
    /\ pc = "push_put"
    /\ IF Len(frame_buffer) < buffer_size
         THEN /\ frame_buffer' = Append(frame_buffer, frame)
              /\ nPub' = Min(nPub + 1, 2)
              /\ lastPub' = frame
              /\ UNCHANGED dropped
         ELSE /\ dropped' = TRUE
              /\ UNCHANGED <<frame_buffer, nPub, lastPub>>
    /\ pc' = "set_last"
    /\ UNCHANGED <<notStream, cfgvars, slept, stop_event, pause_event, last_frame, retry_count,
                   bvars, frame, captured, cvars, obs, maxRead, marks, pausedG,
                   connFailing, evicted>>

\* with self._last_frame_lock: self.last_frame = frame
\* (a faulty variant: last_frame is not updated)
LoopSetLast_KeepsOld ==
    /\ pc = "set_last"
    /\ pc' = "while"
    /\ evicted' = NoFrame
    /\ UNCHANGED <<notStream, cfgvars, slept, svars, bvars, frame, captured, cvars,
                   obs, maxRead, marks, pausedG, nPub, lastPub, connFailing, dropped>>

LoopSetLast ==
    /\ pc = "set_last"
    /\ last_frame' = frame
    /\ pc' = "while"
    /\ evicted' = NoFrame
    /\ UNCHANGED <<notStream, cfgvars, slept, frame_buffer, stop_event, pause_event,
                   retry_count, bvars, frame, captured, cvars, obs, maxRead,
                   marks, pausedG, nPub, lastPub, connFailing, dropped>>

\* self._cleanup(): self._safe_release()
LoopCleanup ==
    /\ pc = "cleanup"
    /\ BackendClose
    /\ pc' = "cleanup_drain"
    /\ UNCHANGED <<notStream, cfgvars, slept, svars, frame, captured, cvars, hvars>>

\* self._cleanup() without the drain
LoopCleanupDrain_KeepsFrames ==
    /\ pc = "cleanup_drain"
    /\ pc' = "done"
    /\ UNCHANGED <<notStream, cfgvars, slept, svars, bvars, frame, captured,
                   cvars, hvars>>

\* self._cleanup(): while not self.frame_buffer.empty(): get_nowait()
LoopCleanupDrain ==
    /\ pc = "cleanup_drain"
    /\ frame_buffer' = <<>>
    /\ pc' = "done"
    /\ UNCHANGED <<notStream, cfgvars, slept, stop_event, pause_event, last_frame, retry_count,
                   bvars, frame, captured, cvars, hvars>>

LoopNext ==
    \/ LoopWhile
    \/ LoopCheckPause
    \/ LoopSleep
    \/ LoopCheckConn
    \/ LoopConnectClose
    \/ LoopConnectOk
    \/ LoopConnectFail
    \/ LoopGrab
    \/ LoopGrabRead
    \/ LoopGrabNone
    \/ LoopPushFull
    \/ LoopPushGet
    \/ LoopPushPut
    \/ LoopSetLast
    \/ LoopCleanup
    \/ LoopCleanupDrain

\* ------------------------------------------------------------------------
\* The caller of the stream's public methods (one thread: in this repository
\* the orchestrator's loop is the only caller of a stream)
\* ------------------------------------------------------------------------
\* what a returning read() leaves behind for the properties to inspect
ReadReturn(val) ==
    /\ obs' = [NoObs EXCEPT !.op = "read", !.val = val, !.paused = pausedG,
                            !.t = rl.t, !.n = rl.n, !.lo = rl.lo, !.noconn = rl.noconn,
                            !.prev = maxRead,
                            !.pub = IF marks.on THEN lastPub ELSE NoFrame]
    /\ maxRead' = Max(maxRead, val)
    /\ nPub' = 0
    /\ rl' = NoRead
    /\ cpc' = "idle"

\* threading.Thread.start(): a thread object is started at most once; a
\* second start() raises RuntimeError
ClientStart ==
    /\ cpc = "idle"
    /\ IF pc = "unstarted"
         THEN /\ pc' = "while"
              /\ obs' = [NoObs EXCEPT !.op = "start"]
         ELSE /\ UNCHANGED pc
              /\ obs' = [NoObs EXCEPT !.op = "start", !.raised = TRUE,
                                      !.alive = IsAlive]
    /\ UNCHANGED <<notStream, cfgvars, slept, svars, bvars, frame, captured, cvars, maxRead,
                   marks, pausedG, nPub, lastPub, connFailing, dropped, evicted>>

\* read(timeout): frame_buffer.get_nowait(), or get(timeout=timeout) that
\* finds a frame at once
ClientReadGet ==
    /\ cpc = "idle"
    /\ frame_buffer # <<>>
    /\ \E t \in {0, 1} :
         /\ obs' = [NoObs EXCEPT !.op = "read", !.val = Head(frame_buffer),
                                 !.paused = pausedG, !.t = t, !.n = nPub,
                                 !.lo = IF nPub >= 1 THEN lastPub ELSE NoFrame,
                                 !.noconn = connFailing, !.prev = maxRead,
                                 !.pub = IF marks.on THEN lastPub ELSE NoFrame]
    /\ maxRead' = Max(maxRead, Head(frame_buffer))
    /\ frame_buffer' = Tail(frame_buffer)
    /\ nPub' = 0
    /\ UNCHANGED <<notStream, cfgvars, slept, stop_event, pause_event, last_frame, retry_count,
                   bvars, lvars, cvars, marks, pausedG, lastPub, connFailing, dropped, evicted>>

\* read(timeout): the buffer is empty at the call. With timeout = 0
\* get_nowait() raises queue.Empty; with timeout > 0 get() starts waiting.
ClientReadEmpty ==
    /\ cpc = "idle"
    /\ frame_buffer = <<>>
    /\ \E t \in {0, 1} :
         /\ rl' = [t |-> t, n |-> nPub, lo |-> IF nPub >= 1 THEN lastPub ELSE NoFrame,
                   noconn |-> connFailing]
         /\ cpc' = IF t = 0 THEN "read_last" ELSE "read_wait"
    /\ obs' = NoObs
    /\ UNCHANGED <<notStream, cfgvars, slept, svars, bvars, lvars, maxRead, marks, pausedG, nPub,
                   lastPub, connFailing, dropped, evicted>>

\* read(timeout > 0): get() is woken by a frame, or times out (queue.Empty)
ClientReadWait ==
    /\ cpc = "read_wait"
    /\ IF frame_buffer # <<>>
         THEN /\ ReadReturn(Head(frame_buffer))
              /\ frame_buffer' = Tail(frame_buffer)
         ELSE /\ cpc' = "read_last"
              /\ UNCHANGED <<frame_buffer, rl, obs, maxRead, nPub>>
    /\ UNCHANGED <<notStream, cfgvars, slept, stop_event, pause_event, last_frame, retry_count,
                   bvars, lvars, marks, pausedG, lastPub, connFailing, dropped, evicted>>

\* read(): except queue.Empty: with self._last_frame_lock: frame = last_frame
ClientReadLast ==
    /\ cpc = "read_last"
    /\ ReadReturn(last_frame)
    /\ UNCHANGED <<notStream, cfgvars, slept, svars, bvars, lvars, marks, pausedG, lastPub,
                   connFailing, dropped, evicted>>

\* pause(): self._pause_event.set()
ClientPause ==
    /\ cpc = "idle"
    /\ pause_event' = TRUE
    /\ cpc' = "pause_clear"
    /\ obs' = NoObs
    /\ nPub' = 0
    /\ marks' = IF marks.on THEN [marks EXCEPT !.pause = captured,
                                               !.resume = NoMark]
                          ELSE marks
    /\ UNCHANGED <<notStream, cfgvars, slept, frame_buffer, stop_event, last_frame, retry_count,
                   bvars, lvars, rl, maxRead, pausedG, lastPub, connFailing,
                   dropped, evicted>>

\* pause(): with self._last_frame_lock: self.last_frame = None
ClientPauseClear ==
    /\ cpc = "pause_clear"
    /\ last_frame' = NoFrame
    /\ cpc' = "pause_drain"
    /\ UNCHANGED <<notStream, cfgvars, slept, frame_buffer, stop_event, pause_event, retry_count,
                   bvars, lvars, rl, hvars>>

\* pause(): while not self.frame_buffer.empty(): get_nowait(); return
ClientPauseDrain ==
    /\ cpc = "pause_drain"
    /\ frame_buffer' = <<>>
    /\ cpc' = "idle"
    /\ pausedG' = TRUE
    /\ nPub' = 0
    /\ obs' = [NoObs EXCEPT !.op = "pause"]
    /\ UNCHANGED <<marks, notStream, cfgvars, slept, stop_event, pause_event, last_frame, retry_count,
                   bvars, lvars, rl, maxRead, lastPub, connFailing, dropped, evicted>>

\* resume(): self._pause_event.clear()
ClientResume ==
    /\ cpc = "idle"
    /\ pause_event' = FALSE
    /\ pausedG' = FALSE
    /\ marks' = IF marks.on THEN [marks EXCEPT !.resume = captured] ELSE marks
    /\ obs' = [NoObs EXCEPT !.op = "resume"]
    /\ UNCHANGED <<notStream, cfgvars, slept, frame_buffer, stop_event, last_frame, retry_count,
                   bvars, lvars, cvars, maxRead, nPub, lastPub, connFailing,
                   dropped, evicted>>

\* stop(): self._stop_event.set()
ClientStop ==
    /\ cpc = "idle"
    /\ stop_event' = TRUE
    /\ cpc' = "stop_release"
    /\ obs' = NoObs
    /\ nPub' = 0
    /\ UNCHANGED <<notStream, cfgvars, slept, frame_buffer, pause_event, last_frame, retry_count,
                   bvars, lvars, rl, maxRead, marks, pausedG, lastPub, connFailing,
                   dropped, evicted>>

\* stop(): self._safe_release()
ClientStopRelease ==
    /\ cpc = "stop_release"
    /\ BackendClose
    /\ cpc' = "stop_join"
    /\ UNCHANGED <<notStream, cfgvars, slept, svars, lvars, rl, hvars>>

\* stop(): self.join(timeout=2.0). Thread.join raises RuntimeError on a thread
\* that was never started; otherwise it returns when the thread has ended or
\* the two seconds are over, whichever is first.
ClientStopJoin ==
    /\ cpc = "stop_join"
    /\ IF pc = "unstarted"
         THEN /\ cpc' = "idle"
              /\ obs' = [NoObs EXCEPT !.op = "stop", !.raised = TRUE]
         ELSE /\ cpc' = "stop_cleanup"
              /\ UNCHANGED obs
    /\ UNCHANGED <<notStream, cfgvars, slept, svars, bvars, lvars, rl, maxRead, marks, pausedG, nPub,
                   lastPub, connFailing, dropped, evicted>>

\* stop(): self._cleanup(): self._safe_release()
ClientStopCleanup ==
    /\ cpc = "stop_cleanup"
    /\ BackendClose
    /\ cpc' = "stop_drain"
    /\ UNCHANGED <<notStream, cfgvars, slept, svars, lvars, rl, hvars>>

\* stop(): self._cleanup(): drain the buffer; return
ClientStopDrain ==
    /\ cpc = "stop_drain"
    /\ frame_buffer' = <<>>
    /\ cpc' = "idle"
    /\ nPub' = 0
    /\ obs' = [NoObs EXCEPT !.op = "stop"]
    /\ UNCHANGED <<notStream, cfgvars, slept, stop_event, pause_event, last_frame, retry_count,
                   bvars, lvars, rl, maxRead, marks, pausedG, lastPub, connFailing,
                   dropped, evicted>>

ClientNext ==
    \/ ClientStart
    \/ ClientReadGet
    \/ ClientReadEmpty
    \/ ClientReadWait
    \/ ClientReadLast
    \/ ClientPause
    \/ ClientPauseClear
    \/ ClientPauseDrain
    \/ ClientResume
    \/ ClientStop
    \/ ClientStopRelease
    \/ ClientStopJoin
    \/ ClientStopCleanup
    \/ ClientStopDrain

\* ------------------------------------------------------------------------
\* ApiController: responses and the public operations' reading of them
\* ------------------------------------------------------------------------
\* Status codes that take different paths through ApiController. 599 is the
\* status of the _FakeResponse returned after a hard network failure.
HardFailure == 599
Statuses == {200, 201, 401, 429, 500, HardFailure}

\* What a response carries as far as the callers read it: "six" is a JSON
\* list whose first element has Valor 6, "other" such a list with another
\* Valor, "empty" an empty list or a JSON value that is no list, "garbage" a
\* body json() raises on (a _FakeResponse has no JSON).
Bodies == {"six", "other", "empty", "garbage"}

\* A Retry-After header as the code reads it: absent, the empty string, a
\* string int() converts (to n), or any other text (an HTTP date, ...).
Header(kind, n) == [kind |-> kind, n |-> n]
NoHeader == Header("absent", 0)

Response(st, b) == [status |-> st, body |-> b, retry_after |-> NoHeader]

\* a server cannot answer 599, and the synthetic response has no JSON
Responses ==
    {Response(st, b) : st \in Statuses \ {HardFailure}, b \in Bodies}
        \cup {Response(HardFailure, "garbage")}

\* ApiController._is_success
IsSuccess(r) == 200 <= r.status /\ r.status < 300

\* ApiController.get_state: its value for the response _request returned
GetState(r) ==
    IF IsSuccess(r)
      THEN IF r.body \in {"six", "other"} THEN r.body = "six" ELSE FALSE
      ELSE FALSE

\* the state request succeeded: a 2xx answer that carries a state
StateRequestSucceeded(r) == IsSuccess(r) /\ r.body \in {"six", "other"}

\* ------------------------------------------------------------------------
\* ApiController: construction
\* ------------------------------------------------------------------------
\* The threads that share one ApiController: a camera's watcher thread and
\* its orchestrator thread (inference_loop.py: api is passed to both).
Callers == {"watcher", "orch"}

\* Session objects alive at one time: self.session and, per caller, the one
\* its request in flight is bound to; _reset_session needs one more. An
\* object no thread refers to any more is forgotten and its slot reused.
Sessions == 1..(Cardinality(Callers) + 2)

Ops == {"get_state", "send_frame", "post_event", "list_images_page"}

\* the HTTP method each public operation passes to _request
Method(op) == IF op \in {"send_frame", "post_event"} THEN "POST" ELSE "GET"

\* allow_retry_post: only send_frame passes True
AllowRetryPost(op) == op = "send_frame"

\* what a send can come back with: a server's answer ...
RetryAfterHeaders ==
    {NoHeader, Header("empty", 0), Header("text", 0)}
        \cup {Header("int", n) : n \in {-2, 0, 3, 11}}

ServerAnswers ==
    {Response(st, b) : st \in {200, 201}, b \in Bodies}
        \cup {Response(st, "garbage") : st \in {401, 500, 503}}
        \cup {[Response(429, "garbage") EXCEPT !.retry_after = h] :
                 h \in RetryAfterHeaders}

\* The session's adapter (Retry(total=3, status_forcelist=(502, 503, 504),
\* allowed_methods=(GET, HEAD, OPTIONS), respect_retry_after_header=True))
\* re-sends by itself, before _request sees the answer: a GET answered with
\* a status of the force list, or answered 413, 429 or 503 with a Retry-After
\* header. It sleeps for the header's seconds first, as they are.
AdapterRetries(op, r) ==
    /\ Method(op) = "GET"
    /\ \/ r.status \in {502, 503, 504}
       \/ r.status \in {413, 429, 503} /\ r.retry_after.kind \in {"int", "text"}

\* Answers a send of operation op is tried with. (A GET answered 429 with a
\* Retry-After the adapter cannot read as seconds is left out: what happens
\* then is decided inside the adapter's own parsing of the header.)
AnswersTo(op) ==
    {r \in ServerAnswers :
        AdapterRetries(op, r) /\ r.status = 429 =>
            (r.retry_after.kind = "int" /\ r.retry_after.n >= 0)}

\* _request's delay for a 429 whose Retry-After header is h:
\* delay = 0; try: if retry_after: delay = int(retry_after)
\* except: delay = 1; delay = min(max(delay, 1), 10)
Delay(h) ==
    LET delay == CASE h.kind = "int" -> h.n
                   [] h.kind = "text" -> 1
                   [] OTHER -> 0
    IN  Min(Max(delay, MinDelay), MaxDelay)

\* ... or an exception of (ConnectionError, ReadTimeout, Timeout), which
\* DoSend models as its second branch. resp before the first send:
NoResponse == Response(0, "garbage")

\* what is remembered of the _request under way: sends made, sends that
\* raised, _reset_session and authenticate calls, whether a send followed
\* the first failure, 401 answers received, whether authenticate obtained a
\* token, the status answered to the re-send that follows authenticate, the
\* status the 401 check examined, the statements that sent, in order, and
\* those of them whose send raised, and whether a send made while
\* self.token held a token carried another Authorization header, and the
\* outcome of the latest send (a status, HardFailure when it raised); for
\* the 429s: the seconds slept because of one, the re-sends made because
\* of one (0, 1, or 2 for more), whether the 429 check found one, its
\* Retry-After header and the delay _request computed for it; and the
\* status the 5xx check examined; whether some send went out while the
\* token field and the sending session's header differed; the
\* Authorization header the latest
\* answered send went out with, and the one whose answer the 401 check
\* examined
NoHist == [sends |-> 0, fails |-> 0, resets |-> 0, reauths |-> 0,
           resent |-> FALSE, n401 |-> 0, authok |-> FALSE, a401 |-> 0,
           first |-> 0, seq |-> <<>>, failat |-> {}, stale |-> FALSE,
           last |-> 0, sleeps |-> {}, re429 |-> 0, c429 |-> FALSE,
           h429 |-> NoHeader, delay |-> 0, s5xx |-> 0, carried |-> NoToken,
           tok401 |-> NoToken, torn |-> FALSE]

\* the Authorization header a send of caller c goes out with now: that of
\* the session object `send` is bound to
Carried(c) == headers[send[c]]

NoRet == [op |-> "none", status |-> 0, value |-> "none", raised |-> FALSE,
          hist |-> NoHist]

\* __init__: _build_session(); authenticate() -- which obtained a token and
\* put it in the session's headers, or failed and left token = None
HttpInit ==
    /\ callers \in {{}, {"orch"}, Callers}
    /\ token \in {NoToken, 1}
    /\ issued = token
    /\ session = 1
    /\ headers = [s \in Sessions |-> IF s = 1 THEN token ELSE NoToken]
    /\ closed = {}
    /\ auth_lock = "free"
    /\ hpc = [c \in Callers |-> "idle"]
    /\ call = [c \in Callers |-> "none"]
    /\ send = [c \in Callers |-> NoSession]
    /\ resp = [c \in Callers |-> NoResponse]
    /\ tries = [c \in Callers |-> 0]
    /\ calls = [c \in Callers |-> 0]
    /\ hist = [c \in Callers |-> NoHist]
    /\ ret = [c \in Callers |-> NoRet]

\* the controller is not exercised: no thread calls it
HttpUnused == callers = {} /\ token = 1

\* two threads use the controller at once
Concurrent == Cardinality(callers) > 1

\* The operations a thread calls. Next to each other, the watcher thread
\* calls get_state (state_watcher.py:60) and the orchestrator thread
\* send_frame (inference_loop.py:416).
OpsOf(c) ==
    IF ~Concurrent THEN Ops
    ELSE IF c = "watcher" THEN {"get_state"} ELSE {"send_frame"}

\* The answers a send of caller c is tried with: all of them for a single
\* thread, one of each path through _request for two threads.
AnswersFor(c) ==
    IF ~Concurrent THEN AnswersTo(call[c])
    ELSE IF c = "watcher"
           THEN {Response(200, "six"), Response(401, "garbage")}
           ELSE {Response(200, "empty"), Response(401, "garbage"),
                 Response(429, "garbage"), Response(500, "garbage")}

\* whether a send of caller c is tried with a transport failure
MayRaise(c) == ~Concurrent \/ c = "watcher"

\* session objects some thread can still reach
Referenced == {session} \cup {send[c] : c \in Callers}

\* ------------------------------------------------------------------------
\* ApiController: the public operations' reading of _request's result
\* ------------------------------------------------------------------------
\* get_state -> bool, send_frame -> bool, post_event -> bool,
\* list_images_page -> list ("page": the list the body holds, "no_items": [])
OpValue(op, r) ==
    CASE op = "get_state" -> IF GetState(r) THEN "true" ELSE "false"
      [] op \in {"send_frame", "post_event"} ->
            IF IsSuccess(r) THEN "true" ELSE "false"
      [] OTHER ->
            IF IsSuccess(r) /\ r.body \in {"six", "other"}
              THEN "page" ELSE "no_items"

\* how often statement s sent in the call whose history is h
SendsAt(h, s) == Cardinality({i \in 1..Len(h.seq) : h.seq[i] = s})

\* the place of a sending statement in _request's text: the first attempt,
\* then the re-sends for a transport failure, a 401, a 429 and a 5xx
Rank(s) ==
    CASE s = "send1" -> 0
      [] s = "send2" -> 1
      [] s = "send401" -> 2
      [] s = "send429" -> 3
      [] s = "send5xx" -> 4

\* the value with which an operation reports that it failed
FailureValue(op) == IF op = "list_images_page" THEN "no_items" ELSE "false"

\* ------------------------------------------------------------------------
\* ApiController._request, statement by statement, for caller c
\* ------------------------------------------------------------------------
\* a public operation calls _request: url = ...; send = getattr(self.session,
\* method.lower()) binds the session object of this moment
HttpCall(c) ==
    /\ c \in callers
    /\ hpc[c] = "idle"
    /\ Concurrent => calls[c] < MaxCalls
    /\ calls' = [calls EXCEPT ![c] = IF Concurrent THEN @ + 1 ELSE @]
    /\ \E op \in OpsOf(c) : call' = [call EXCEPT ![c] = op]
    /\ send' = [send EXCEPT ![c] = session]
    /\ resp' = [resp EXCEPT ![c] = NoResponse]
    /\ hist' = [hist EXCEPT ![c] = NoHist]
    /\ ret' = [ret EXCEPT ![c] = NoRet]
    /\ hpc' = [hpc EXCEPT ![c] = "send1"]
    /\ UNCHANGED <<notHttp, tries, token, issued, session, headers, closed,
                   auth_lock, callers>>

\* _do_send() inside a try. The server answers: the adapter re-sends by
\* itself (the statement is not left), or the answer is handed to _request
\* and the statement after the try is reached. Or one of (ConnectionError,
\* ReadTimeout, Timeout) is raised and the except clause runs -- which goes
\* to failpc, or returns _FakeResponse(599) when failpc is "return".
DoSend(c, okpc, failpc) ==
    /\ \/ \E r \in AnswersFor(c) :
            IF AdapterRetries(call[c], r) /\ tries[c] < AdapterTotal
              THEN /\ tries' = [tries EXCEPT ![c] = @ + 1]
                   /\ hist' = [hist EXCEPT
                         ![c].sleeps = IF r.status = 429
                                         THEN @ \cup {r.retry_after.n} ELSE @,
                         ![c].re429 = IF r.status = 429
                                        THEN Min(@ + 1, 2) ELSE @,
                         ![c].torn = @ \/ Carried(c) # token,
                         ![c].stale = @ \/ (token # NoToken
                                               /\ Carried(c) # token)]
                   /\ UNCHANGED <<resp, hpc>>
              ELSE /\ tries' = [tries EXCEPT ![c] = 0]
                   /\ resp' = [resp EXCEPT ![c] = r]
                   /\ hpc' = [hpc EXCEPT ![c] = okpc]
                   /\ hist' = [hist EXCEPT
                         ![c].sends = @ + 1,
                         ![c].resent = @ \/ hist[c].fails >= 1,
                         ![c].n401 = IF r.status = 401 THEN @ + 1 ELSE @,
                         ![c].a401 = IF hpc[c] = "send401"
                                       THEN r.status ELSE @,
                         ![c].seq = Append(@, hpc[c]),
                         ![c].last = r.status,
                         ![c].carried = Carried(c),
                         ![c].torn = @ \/ Carried(c) # token,
                         ![c].stale = @ \/ (token # NoToken
                                               /\ Carried(c) # token)]
       \/ /\ MayRaise(c)
          /\ tries' = [tries EXCEPT ![c] = 0]
          /\ resp' = [resp EXCEPT ![c] =
                        IF failpc = "return"
                          THEN Response(HardFailure, "garbage") ELSE @]
          /\ hpc' = [hpc EXCEPT ![c] = failpc]
          /\ hist' = [hist EXCEPT ![c].sends = @ + 1,
                                  ![c].fails = @ + 1,
                                  ![c].resent = @ \/ hist[c].fails >= 1,
                                  ![c].seq = Append(@, hpc[c]),
                                  ![c].failat = @ \cup {hpc[c]},
                                  ![c].last = HardFailure,
                                  ![c].torn = @ \/ Carried(c) # token,
                                  ![c].stale = @ \/ (token # NoToken
                                               /\ Carried(c) # token)]
    /\ UNCHANGED <<notHttp, calls, token, issued, session, headers, closed,
                   auth_lock, callers, call, send, ret>>

\* (a faulty variant: the request is re-sent without rebuilding the session)
HttpFirstSend_NoReset(c) ==
    /\ hpc[c] = "send1"
    /\ DoSend(c, "check401", "send2")

\* 1st attempt: try: resp = _do_send() / except: self._reset_session() ...
HttpFirstSend(c) ==
    /\ hpc[c] = "send1"
    /\ DoSend(c, "check401", "reset")

\* _reset_session(): self.session.close(); self._build_session() makes
\* self.session a new session object, without an Authorization header
HttpResetBuild(c) ==
    /\ hpc[c] = "reset"
    /\ LET s == CHOOSE x \in Sessions : x \notin Referenced
       IN  /\ session' = s
           /\ headers' = [headers EXCEPT ![s] = NoToken]
           /\ closed' = ((closed \cup {session}) \cap Referenced) \ {s}
    /\ hist' = [hist EXCEPT ![c].resets = @ + 1]
    /\ hpc' = [hpc EXCEPT ![c] = "reset_header"]
    /\ UNCHANGED <<notHttp, tries, calls, token, issued, auth_lock, callers, call, send,
                   resp, ret>>

\* _reset_session(): if self.token: self.session.headers.update(...)
HttpResetHeader(c) ==
    /\ hpc[c] = "reset_header"
    /\ headers' = IF token # NoToken
                    THEN [headers EXCEPT ![session] = token]
                    ELSE headers
    /\ hpc' = [hpc EXCEPT ![c] = "send2"]
    /\ UNCHANGED <<notHttp, tries, calls, token, issued, session, closed, auth_lock,
                   callers, call, send, resp, hist, ret>>

\* try: resp = _do_send() / except: return _FakeResponse(599)
\* (a faulty variant: a failed re-send rebuilds the session again)
HttpResendAfterReset_ResetsAgain(c) ==
    /\ hpc[c] = "send2"
    /\ DoSend(c, "check401", "reset")

HttpResendAfterReset(c) ==
    /\ hpc[c] = "send2"
    /\ DoSend(c, "check401", "return")

\* if resp.status_code == 401: self.authenticate() ...
HttpCheck401(c) ==
    /\ hpc[c] = "check401"
    /\ hpc' = [hpc EXCEPT ![c] =
                 IF resp[c].status = 401 THEN "auth" ELSE "check429"]
    /\ hist' = [hist EXCEPT ![c].first = resp[c].status,
                            ![c].tok401 = hist[c].carried]
    /\ UNCHANGED <<notHttp, tries, calls, token, issued, session, headers, closed,
                   auth_lock, callers, call, send, resp, ret>>

\* authenticate(): with self._auth_lock:
HttpAuthAcquire(c) ==
    /\ hpc[c] = "auth"
    /\ auth_lock = "free"
    /\ auth_lock' = c
    /\ hpc' = [hpc EXCEPT ![c] = "auth_post"]
    /\ UNCHANGED <<notHttp, tries, calls, token, issued, session, headers, closed, callers,
                   call, send, resp, hist, ret>>

\* authenticate(): r = self.session.post(.../token) and what is stored in
\* self.token: the new token on a 200 that carries one; None on an exception
\* (any RequestException is caught), on a 200 without a token and on any
\* other status
HttpAuthPost(c) ==
    /\ hpc[c] = "auth_post"
    /\ \/ /\ issued < MaxTokens
          /\ issued' = issued + 1
          /\ token' = issued + 1
          /\ hpc' = [hpc EXCEPT ![c] = "auth_header"]
          /\ hist' = [hist EXCEPT ![c].reauths = @ + 1,
                                  ![c].authok = TRUE]
       \/ /\ token' = NoToken
          /\ hpc' = [hpc EXCEPT ![c] = "auth_release"]
          /\ hist' = [hist EXCEPT ![c].reauths = @ + 1]
          /\ UNCHANGED issued
    /\ UNCHANGED <<notHttp, tries, calls, session, headers, closed, auth_lock, callers,
                   call, send, resp, ret>>

\* authenticate(): self.session.headers.update({"Authorization": ...})
HttpAuthHeader(c) ==
    /\ hpc[c] = "auth_header"
    /\ headers' = [headers EXCEPT ![session] = token]
    /\ hpc' = [hpc EXCEPT ![c] = "auth_release"]
    /\ UNCHANGED <<notHttp, tries, calls, token, issued, session, closed, auth_lock,
                   callers, call, send, resp, hist, ret>>

\* authenticate(): the with block is left
HttpAuthRelease(c) ==
    /\ hpc[c] = "auth_release"
    /\ auth_lock' = "free"
    /\ hpc' = [hpc EXCEPT ![c] = "send401"]
    /\ UNCHANGED <<notHttp, tries, calls, token, issued, session, headers, closed, callers,
                   call, send, resp, hist, ret>>

\* (a faulty variant: the answer to the re-send is checked for 401 again)
HttpResendAfter401_Rechecks(c) ==
    /\ hpc[c] = "send401"
    /\ DoSend(c, "check401", "return")

\* after authenticate(): try: resp = _do_send() / except: return 599
HttpResendAfter401(c) ==
    /\ hpc[c] = "send401"
    /\ DoSend(c, "check429", "return")

\* if resp.status_code == 429: retry_after = ...; delay = ...;
\* time.sleep(delay)
HttpCheck429(c) ==
    /\ hpc[c] = "check429"
    /\ IF resp[c].status = 429
         THEN /\ hpc' = [hpc EXCEPT ![c] = "send429"]
              /\ hist' = [hist EXCEPT
                            ![c].c429 = TRUE,
                            ![c].h429 = resp[c].retry_after,
                            ![c].delay = Delay(resp[c].retry_after),
                            ![c].sleeps = @ \cup {Delay(resp[c].retry_after)},
                            ![c].re429 = Min(@ + 1, 2)]
         ELSE /\ hpc' = [hpc EXCEPT ![c] = "check5xx"]
              /\ UNCHANGED hist
    /\ UNCHANGED <<notHttp, tries, calls, token, issued, session, headers, closed,
                   auth_lock, callers, call, send, resp, ret>>

\* (a faulty variant: the answer to the re-send is checked for 429 again)
HttpResendAfter429_Rechecks(c) ==
    /\ hpc[c] = "send429"
    /\ DoSend(c, "check429", "return")

\* after the sleep: try: resp = _do_send() / except: return 599
HttpResendAfter429(c) ==
    /\ hpc[c] = "send429"
    /\ DoSend(c, "check5xx", "return")

\* (a faulty variant: every POST answered 5xx is re-sent)
HttpCheck5xx_AnyPost(c) ==
    /\ hpc[c] = "check5xx"
    /\ hpc' = [hpc EXCEPT ![c] =
                 IF /\ resp[c].status >= 500
                    /\ Method(call[c]) = "POST"
                   THEN "send5xx" ELSE "return"]
    /\ hist' = [hist EXCEPT ![c].s5xx = resp[c].status]
    /\ UNCHANGED <<notHttp, tries, calls, token, issued, session, headers, closed,
                   auth_lock, callers, call, send, resp, ret>>

\* if resp.status_code >= 500 and method.upper() == "POST" and
\* allow_retry_post:
HttpCheck5xx(c) ==
    /\ hpc[c] = "check5xx"
    /\ hpc' = [hpc EXCEPT ![c] =
                 IF /\ resp[c].status >= 500
                    /\ Method(call[c]) = "POST"
                    /\ AllowRetryPost(call[c])
                   THEN "send5xx" ELSE "return"]
    /\ hist' = [hist EXCEPT ![c].s5xx = resp[c].status]
    /\ UNCHANGED <<notHttp, tries, calls, token, issued, session, headers, closed,
                   auth_lock, callers, call, send, resp, ret>>

\* try: resp = _do_send() / except: return 599
HttpResendAfter5xx(c) ==
    /\ hpc[c] = "send5xx"
    /\ DoSend(c, "return", "return")

\* return resp, and the public operation's reading of it: _is_success,
\* r.json() under try/except, the bool or the list returned
HttpReturn(c) ==
    /\ hpc[c] = "return"
    /\ ret' = [ret EXCEPT ![c] =
                 [op |-> call[c], status |-> resp[c].status,
                  value |-> OpValue(call[c], resp[c]), raised |-> FALSE,
                  hist |-> hist[c]]]
    /\ hpc' = [hpc EXCEPT ![c] = "idle"]
    /\ send' = [send EXCEPT ![c] = NoSession]
    /\ call' = [call EXCEPT ![c] = "none"]
    /\ resp' = [resp EXCEPT ![c] = NoResponse]
    /\ hist' = [hist EXCEPT ![c] = NoHist]
    /\ LET live == {session} \cup {send'[d] : d \in Callers}
       IN  /\ headers' = [s \in Sessions |->
                            IF s \in live THEN headers[s] ELSE NoToken]
           /\ closed' = closed \cap live
    /\ UNCHANGED <<notHttp, tries, calls, token, issued, session, auth_lock, callers>>

HttpNext ==
    \E c \in Callers :
        \/ HttpCall(c)
        \/ HttpFirstSend(c)
        \/ HttpResetBuild(c)
        \/ HttpResetHeader(c)
        \/ HttpResendAfterReset(c)
        \/ HttpCheck401(c)
        \/ HttpAuthAcquire(c)
        \/ HttpAuthPost(c)
        \/ HttpAuthHeader(c)
        \/ HttpAuthRelease(c)
        \/ HttpResendAfter401(c)
        \/ HttpCheck429(c)
        \/ HttpResendAfter429(c)
        \/ HttpCheck5xx(c)
        \/ HttpResendAfter5xx(c)
        \/ HttpReturn(c)

\* ------------------------------------------------------------------------
\* StateWatcher.__init__
\* ------------------------------------------------------------------------
NoWObs == [op |-> "none", val |-> FALSE, raised |-> FALSE, good |-> FALSE,
           mid |-> FALSE]

WatcherInit ==
    /\ on_change \in {"none", "returns", "raises", "reads"}
    /\ w_state = FALSE
    /\ w_lock = "free"
    /\ changed = FALSE
    /\ w_stop_event = FALSE
    /\ wake_event = FALSE
    /\ consecutive_failures = 0
    /\ last_error = FALSE
    /\ last_update_ts = FALSE
    /\ wpc = "unstarted"
    /\ new_state = FALSE
    /\ polls = 0
    /\ wcpc = "idle"
    /\ w_obs = NoWObs
    /\ lastGood = FALSE
    /\ cb_calls = <<>>
    /\ cb_seen = <<>>
    /\ changes = <<>>
    /\ poll_good = FALSE

\* ------------------------------------------------------------------------
\* StateWatcher.run and _poll_once, statement by statement
\* ------------------------------------------------------------------------
\* _poll_once: new_state = self.api.get_state(self.po) returned a value.
\* get_state turns every response into a bool.
WatcherPollReturn ==
    /\ wpc = "poll"
    /\ polls' = Min(polls + 1, MaxPolls)
    /\ \E r \in Responses :
         /\ new_state' = GetState(r)
         /\ lastGood' = IF StateRequestSucceeded(r) THEN GetState(r)
                                                    ELSE lastGood
         /\ poll_good' = StateRequestSucceeded(r)
    /\ wpc' = "set_state"
    /\ UNCHANGED <<notWatcher, wcfg, wfields, changed, wcpc, w_obs, cb_seen, cb_calls,
                   changes>>

\* _poll_once: self.api.get_state raised (an exception _request does not
\* catch): consecutive_failures += 1; last_error = str(e)
WatcherPollRaise ==
    /\ wpc = "poll"
    /\ consecutive_failures < MaxFailures
    /\ polls' = Min(polls + 1, MaxPolls)
    /\ consecutive_failures' = consecutive_failures + 1
    /\ last_error' = TRUE
    /\ poll_good' = FALSE
    /\ wpc' = "backoff_wait"
    /\ UNCHANGED <<notWatcher, wcfg, w_state, w_lock, w_stop_event, wake_event,
                   last_update_ts, new_state, changed, wcpc, w_obs, lastGood,
                   cb_seen, cb_calls, changes>>

\* _set_state with the callback invoked after every poll
WatcherSetState_AlwaysNotifies ==
    /\ wpc = "set_state"
    /\ w_lock = "free"
    /\ w_lock' = "watcher"
    /\ w_state' = new_state
    /\ changed' = TRUE
    /\ changes' = IF new_state # w_state /\ Len(changes) < MaxPolls
                    THEN Append(changes, new_state) ELSE changes
    /\ wpc' = "unlock"
    /\ UNCHANGED <<notWatcher, wcfg, w_stop_event, wake_event,
                   consecutive_failures, last_error, last_update_ts,
                   new_state, polls, wcpc, w_obs, poll_good, lastGood, cb_seen, cb_calls>>

\* _set_state: with self._lock: if new_state != self._state:
\*     self._state = new_state; changed = True
WatcherSetState ==
    /\ wpc = "set_state"
    /\ w_lock = "free"
    /\ w_lock' = "watcher"
    /\ w_state' = new_state
    /\ changed' = (new_state # w_state)
    /\ changes' = IF new_state # w_state /\ Len(changes) < MaxPolls
                    THEN Append(changes, new_state) ELSE changes
    /\ wpc' = "unlock"
    /\ UNCHANGED <<notWatcher, wcfg, w_stop_event, wake_event,
                   consecutive_failures, last_error, last_update_ts,
                   new_state, polls, wcpc, w_obs, poll_good, lastGood, cb_seen, cb_calls>>

\* _set_state with the callback invoked inside the `with` block
WatcherUnlock_AfterCallback ==
    /\ wpc = "unlock"
    /\ IF changed /\ on_change # "none" /\ w_lock = "watcher"
         THEN /\ wpc' = "callback"
              /\ UNCHANGED w_lock
         ELSE /\ wpc' = "poll_ok"
              /\ w_lock' = "free"
    /\ UNCHANGED <<notWatcher, wcfg, w_state, w_stop_event, wake_event,
                   consecutive_failures, last_error, last_update_ts,
                   new_state, changed, polls, wcpc, whist>>

\* _set_state: the `with` block is left (the lock released);
\* if changed and self.on_change:
WatcherUnlock ==
    /\ wpc = "unlock"
    /\ w_lock' = "free"
    /\ wpc' = IF changed /\ on_change # "none" THEN "callback" ELSE "poll_ok"
    /\ UNCHANGED <<notWatcher, wcfg, w_state, w_stop_event, wake_event,
                   consecutive_failures, last_error, last_update_ts,
                   new_state, changed, polls, wcpc, whist>>

\* _set_state: try: self.on_change(new_state) / except Exception: an
\* exception the callback raises is logged and swallowed. A callback that
\* calls get_state() and get_status() on the watcher takes the lock in each
\* (`with self._lock`), and waits for it while it is held.
WatcherCallback ==
    /\ wpc = "callback"
    /\ on_change = "reads" => w_lock = "free"
    /\ cb_calls' = IF Len(cb_calls) < MaxPolls THEN Append(cb_calls, new_state)
                                                ELSE cb_calls
    /\ cb_seen' = IF on_change = "reads" THEN <<w_state>> ELSE cb_seen
    /\ wpc' = "poll_ok"
    /\ UNCHANGED <<notWatcher, wcfg, wfields, new_state, changed, polls, wcpc,
                   w_obs, poll_good, lastGood, changes>>

\* _poll_once: consecutive_failures = 0; last_error = None; last_update_ts
WatcherPollOk ==
    /\ wpc = "poll_ok"
    /\ consecutive_failures' = 0
    /\ last_error' = FALSE
    /\ last_update_ts' = TRUE
    /\ wpc' = "while"
    /\ UNCHANGED <<notWatcher, wcfg, w_state, w_lock, w_stop_event, wake_event,
                   new_state, changed, polls, wcpc, whist>>

\* _poll_once: self._wake_event.wait(backoff) returns: the event is set, or
\* the backoff is over
WatcherBackoffWait ==
    /\ wpc = "backoff_wait"
    /\ wpc' = "backoff_clear"
    /\ UNCHANGED <<notWatcher, wcfg, wfields, new_state, changed, polls, wcpc, whist>>

\* _poll_once: self._wake_event.clear()
WatcherBackoffClear ==
    /\ wpc = "backoff_clear"
    /\ wake_event' = FALSE
    /\ wpc' = "while"
    /\ UNCHANGED <<notWatcher, wcfg, w_state, w_lock, w_stop_event,
                   consecutive_failures, last_error, last_update_ts,
                   new_state, changed, polls, wcpc, whist>>

\* run: while not self._stop_event.is_set():
WatcherWhile ==
    /\ wpc = "while"
    /\ wpc' = IF w_stop_event THEN "done" ELSE "wait"
    /\ UNCHANGED <<notWatcher, wcfg, wfields, new_state, changed, polls, wcpc, whist>>

\* run: self._wake_event.wait(self.interval) returns: the event is set, or
\* the interval is over
WatcherWait ==
    /\ wpc = "wait"
    /\ wpc' = "clear"
    /\ UNCHANGED <<notWatcher, wcfg, wfields, new_state, changed, polls, wcpc, whist>>

\* run: self._wake_event.clear()
WatcherClear ==
    /\ wpc = "clear"
    /\ wake_event' = FALSE
    /\ wpc' = "check_stop"
    /\ UNCHANGED <<notWatcher, wcfg, w_state, w_lock, w_stop_event,
                   consecutive_failures, last_error, last_update_ts,
                   new_state, changed, polls, wcpc, whist>>

\* run: if self._stop_event.is_set(): break; else self._poll_once()
WatcherCheckStop ==
    /\ wpc = "check_stop"
    /\ wpc' = IF w_stop_event THEN "done" ELSE "poll"
    /\ UNCHANGED <<notWatcher, wcfg, wfields, new_state, changed, polls, wcpc, whist>>

WatcherThreadNext ==
    \/ WatcherPollReturn
    \/ WatcherPollRaise
    \/ WatcherSetState
    \/ WatcherUnlock
    \/ WatcherCallback
    \/ WatcherPollOk
    \/ WatcherBackoffWait
    \/ WatcherBackoffClear
    \/ WatcherWhile
    \/ WatcherWait
    \/ WatcherClear
    \/ WatcherCheckStop

\* ------------------------------------------------------------------------
\* The caller of the watcher's public methods
\* ------------------------------------------------------------------------
\* threading.Thread.start() with run beginning at its loop
WatcherStart_WaitsFirst ==
    /\ wcpc = "idle"
    /\ IF wpc = "unstarted"
         THEN /\ wpc' = "while"
              /\ w_obs' = [NoWObs EXCEPT !.op = "start"]
         ELSE /\ UNCHANGED wpc
              /\ w_obs' = [NoWObs EXCEPT !.op = "start", !.raised = TRUE]
    /\ UNCHANGED <<notWatcher, wcfg, wfields, new_state, changed, polls, wcpc,
                   poll_good, lastGood, cb_seen, cb_calls, changes>>

\* threading.Thread.start(): run begins with self._poll_once(initial=True)
WatcherStart ==
    /\ wcpc = "idle"
    /\ IF wpc = "unstarted"
         THEN /\ wpc' = "poll"
              /\ w_obs' = [NoWObs EXCEPT !.op = "start"]
         ELSE /\ UNCHANGED wpc
              /\ w_obs' = [NoWObs EXCEPT !.op = "start", !.raised = TRUE]
    /\ UNCHANGED <<notWatcher, wcfg, wfields, new_state, changed, polls, wcpc,
                   poll_good, lastGood, cb_seen, cb_calls, changes>>

\* get_state(): with self._lock: return self._state
WatcherGetState ==
    /\ wcpc = "idle"
    /\ w_lock = "free"
    /\ w_obs' = [NoWObs EXCEPT !.op = "get_state", !.val = w_state,
                               !.good = lastGood,
                               !.mid = (wpc = "set_state")]
    /\ UNCHANGED <<notWatcher, wcfg, wfields, wthread, wcpc, poll_good, lastGood,
                   cb_seen, cb_calls, changes>>

\* stop(): self._stop_event.set()
WatcherStop ==
    /\ wcpc = "idle"
    /\ w_stop_event' = TRUE
    /\ wcpc' = "stop_wake"
    /\ w_obs' = NoWObs
    /\ UNCHANGED <<notWatcher, wcfg, w_state, w_lock, wake_event,
                   consecutive_failures, last_error, last_update_ts, wthread,
                   poll_good, lastGood, cb_seen, cb_calls, changes>>

\* stop(): self._wake_event.set()
WatcherStopWake ==
    /\ wcpc = "stop_wake"
    /\ wake_event' = TRUE
    /\ wcpc' = "stop_join"
    /\ UNCHANGED <<notWatcher, wcfg, w_state, w_lock, w_stop_event,
                   consecutive_failures, last_error, last_update_ts, wthread,
                   whist>>

\* stop(): self.join(timeout=2.0); RuntimeError on a thread never started
WatcherStopJoin ==
    /\ wcpc = "stop_join"
    /\ wcpc' = "idle"
    /\ w_obs' = [NoWObs EXCEPT !.op = "stop", !.raised = (wpc = "unstarted")]
    /\ UNCHANGED <<notWatcher, wcfg, wfields, wthread, poll_good, lastGood, cb_seen, cb_calls, changes>>

WatcherCallerNext ==
    \/ WatcherStart
    \/ WatcherGetState
    \/ WatcherStop
    \/ WatcherStopWake
    \/ WatcherStopJoin

\* ------------------------------------------------------------------------
\* run_inference: the per-camera loop. In this unit a call into the stream or
\* the watcher is one step, the stream's thread is represented by the frames
\* it publishes and the watcher's thread by the state it stores.
\* ------------------------------------------------------------------------
Scores == {DetectThreshold - 1, DetectThreshold, DetectThreshold + 1}

NoTick == [gate |-> FALSE, read |-> FALSE, frame |-> NoFrame,
           inferred |-> FALSE, sent |-> 0, with_class |-> FALSE,
           raised |-> FALSE,
           gated |-> FALSE, prev |-> FALSE, resumed |-> FALSE,
           paused |-> FALSE, class_failed |-> FALSE, send_failed |-> FALSE]

OrchInit ==
    /\ o_stop_event = FALSE
    /\ opc = "while"
    /\ was_running = FALSE
    /\ o_frame = NoFrame
    /\ o_score = NoScore
    /\ o_class = FALSE
    /\ tick = NoTick

\* the watcher's and the stream's fields the orchestrator does not touch
orchRest == <<cfgvars, retry_count, bvars, pc, frame, cvars, hvars, slept,
              wcfg, w_lock,
              consecutive_failures, last_error, last_update_ts, wthread,
              wcpc, whist, unit, httpvars, pagevars, mainvars,
               extractvars>>

\* while not stop_event.is_set():
OrchWhile ==
    /\ opc = "while"
    /\ opc' = IF o_stop_event THEN "finally" ELSE "gate"
    /\ tick' = [NoTick EXCEPT !.prev = IF tick.gated THEN tick.gate
                                                     ELSE tick.prev]
    /\ UNCHANGED <<o_stop_event, was_running, o_frame, o_score, o_class,
                   svars, captured, w_state, w_stop_event, wake_event,
                   orchRest>>

\* if watcher.get_state(): ... else: ...
OrchGate ==
    /\ opc = "gate"
    /\ opc' = IF w_state THEN (IF was_running THEN "read" ELSE "resume")
                         ELSE (IF was_running THEN "pause" ELSE "idle_sleep")
    /\ tick' = [tick EXCEPT !.gate = w_state, !.gated = TRUE]
    /\ UNCHANGED <<o_stop_event, was_running, o_frame, o_score, o_class,
                   svars, captured, w_state, w_stop_event, wake_event,
                   orchRest>>

\* stream.resume(); time.sleep(0.1); was_running = True
OrchResume ==
    /\ opc = "resume"
    /\ pause_event' = FALSE
    /\ was_running' = TRUE
    /\ opc' = "read"
    /\ tick' = [tick EXCEPT !.resumed = TRUE]
    /\ UNCHANGED <<o_stop_event, o_frame, o_score, o_class,
                   frame_buffer, stop_event, last_frame, captured, w_state,
                   w_stop_event, wake_event, orchRest>>

\* frame = stream.read(timeout=0.2); if frame is None: log, continue
OrchRead ==
    /\ opc = "read"
    /\ LET got == IF frame_buffer # <<>> THEN Head(frame_buffer)
                                         ELSE last_frame
       IN /\ o_frame' = got
          /\ tick' = [tick EXCEPT !.read = TRUE, !.frame = got]
          /\ opc' = IF got = NoFrame THEN "while" ELSE "infer"
    /\ frame_buffer' = IF frame_buffer # <<>> THEN Tail(frame_buffer)
                                              ELSE frame_buffer
    /\ o_score' = NoScore
    /\ o_class' = FALSE
    /\ UNCHANGED <<o_stop_event, was_running, stop_event, pause_event,
                   last_frame, captured, w_state, w_stop_event, wake_event,
                   orchRest>>

\* preprocess; predictions = engine.predict(...); score = float(sel_score);
\* if score < THRESH: continue. Preprocessing or the model may raise.
OrchInfer ==
    /\ opc = "infer"
    /\ \/ \E sc \in Scores :
            /\ o_score' = sc
            /\ opc' = IF sc < DetectThreshold THEN "while" ELSE "extract"
            /\ tick' = [tick EXCEPT !.inferred = TRUE]
       \/ /\ opc' = "except"
          /\ tick' = [tick EXCEPT !.raised = TRUE]
          /\ UNCHANGED o_score
    /\ UNCHANGED <<o_stop_event, was_running, o_frame, o_class, svars,
                   captured, w_state, w_stop_event, wake_event, orchRest>>

\* poly_norm = extract_anomaly_polygon(anomaly_map, frame.shape)
OrchExtract ==
    /\ opc = "extract"
    /\ \/ /\ opc' = "classify"
          /\ UNCHANGED tick
       \/ /\ opc' = "except"
          /\ tick' = [tick EXCEPT !.raised = TRUE]
    /\ UNCHANGED <<o_stop_event, was_running, o_frame, o_score, o_class,
                   svars, captured, w_state, w_stop_event, wake_event,
                   orchRest>>

\* try: emb = embed_region_from_frame_rgb(...); proba = clf.predict_proba
\* ...; pred_class_name = cls_name  except Exception: log
OrchClassify ==
    /\ opc = "classify"
    /\ o_class' \in BOOLEAN
    /\ tick' = [tick EXCEPT !.class_failed = ~o_class']
    /\ opc' = "submit"
    /\ UNCHANGED <<o_stop_event, was_running, o_frame, o_score, svars,
                   captured, w_state, w_stop_event, wake_event, orchRest>>

\* payload = {...}; ok, enc_jpg = cv2.imencode(...); if ok: api.send_frame
\* (its bool is dropped); debug artifacts best-effort; break. Building the
\* payload, the encoder or send_frame may raise.
OrchSubmit ==
    /\ opc = "submit"
    /\ \/ /\ \E failed \in BOOLEAN :
                tick' = [tick EXCEPT !.sent = 1, !.with_class = o_class,
                                     !.send_failed = failed]
          /\ opc' = "while"
       \/ /\ UNCHANGED tick            \* imencode returned ok = False
          /\ opc' = "while"
       \/ /\ tick' = [tick EXCEPT !.raised = TRUE]
          /\ opc' = "except"
    /\ UNCHANGED <<o_stop_event, was_running, o_frame, o_score, o_class,
                   svars, captured, w_state, w_stop_event, wake_event,
                   orchRest>>

\* stream.pause()
OrchPause_KeepsRunning ==
    /\ opc = "pause"
    /\ pause_event' = TRUE
    /\ last_frame' = NoFrame
    /\ frame_buffer' = <<>>
    /\ opc' = "idle_sleep"
    /\ tick' = [tick EXCEPT !.paused = TRUE]
    /\ UNCHANGED <<o_stop_event, was_running, o_frame, o_score, o_class,
                   stop_event, captured, w_state, w_stop_event, wake_event,
                   orchRest>>

\* stream.pause(); was_running = False
OrchPause ==
    /\ opc = "pause"
    /\ pause_event' = TRUE
    /\ last_frame' = NoFrame
    /\ frame_buffer' = <<>>
    /\ was_running' = FALSE
    /\ opc' = "idle_sleep"
    /\ tick' = [tick EXCEPT !.paused = TRUE]
    /\ UNCHANGED <<o_stop_event, o_frame, o_score, o_class, stop_event,
                   captured, w_state, w_stop_event, wake_event, orchRest>>

\* time.sleep(0.1) of the idle branch; the except branch without its handler
OrchSleep_ExceptEndsLoop ==
    /\ opc \in {"idle_sleep", "except"}
    /\ opc' = IF opc = "except" THEN "finally" ELSE "while"
    /\ UNCHANGED <<o_stop_event, was_running, o_frame, o_score, o_class,
                   tick, svars, captured, w_state, w_stop_event, wake_event,
                   orchRest>>

\* time.sleep(0.1) of the idle branch; time.sleep(0.5) of the except branch
OrchSleep ==
    /\ opc \in {"idle_sleep", "except"}
    /\ opc' = "while"
    /\ UNCHANGED <<o_stop_event, was_running, o_frame, o_score, o_class,
                   tick, svars, captured, w_state, w_stop_event, wake_event,
                   orchRest>>

\* finally: stream.pause(); stream.stop(); watcher.stop(); extractor.close()
\* (each in its own try/except)
OrchFinally ==
    /\ opc = "finally"
    /\ pause_event' = TRUE
    /\ last_frame' = NoFrame
    /\ frame_buffer' = <<>>
    /\ stop_event' = TRUE
    /\ w_stop_event' = TRUE
    /\ wake_event' = TRUE
    /\ opc' = "done"
    /\ UNCHANGED <<o_stop_event, was_running, o_frame, o_score, o_class,
                   tick, captured, w_state, orchRest>>

OrchThreadNext ==
    \/ OrchWhile
    \/ OrchGate
    \/ OrchResume
    \/ OrchRead
    \/ OrchInfer
    \/ OrchExtract
    \/ OrchClassify
    \/ OrchSubmit
    \/ OrchPause
    \/ OrchSleep
    \/ OrchFinally

\* the watcher's thread stores a new state (_set_state)
OrchEnvGate ==
    /\ opc # "done"
    /\ w_state' = ~w_state
    /\ UNCHANGED <<orchvars, svars, captured, w_stop_event, wake_event,
                   orchRest>>

\* the stream's thread completes one iteration of run that captures a frame:
\* drop the oldest when full, enqueue, publish as last_frame
OrchEnvCapture ==
    /\ ~stop_event
    /\ ~pause_event
    /\ captured < MaxFrames
    /\ captured' = captured + 1
    /\ frame_buffer' =
         Append(IF Len(frame_buffer) >= buffer_size THEN Tail(frame_buffer)
                                                    ELSE frame_buffer,
                captured + 1)
    /\ last_frame' = captured + 1
    /\ UNCHANGED <<orchvars, stop_event, pause_event, w_state, w_stop_event,
                   wake_event, orchRest>>

\* whoever holds the stop event sets it
OrchEnvStop ==
    /\ ~o_stop_event
    /\ o_stop_event' = TRUE
    /\ UNCHANGED <<opc, was_running, o_frame, o_score, o_class, tick, svars,
                   captured, w_state, w_stop_event, wake_event, orchRest>>

OrchEnvNext ==
    \/ OrchEnvGate
    \/ OrchEnvCapture
    \/ OrchEnvStop

\* ------------------------------------------------------------------------
\* ApiController.list_images
\* ------------------------------------------------------------------------
\* What _request comes back with for GET /anomalias/list, as far as
\* list_images_page tells it apart: a 2xx whose JSON is a list of n items,
\* a 2xx whose body is no JSON list, anything else (a status outside 2xx,
\* the synthetic 599).
Answer(kind, n) == [kind |-> kind, n |-> n]

\* the answers tried for page size t; a server may ignore take and send
\* one item more
AnswersOfSize(t) ==
    {Answer("list", n) : n \in 0..(t + 1)}
        \cup {Answer("notlist", 0), Answer("failed", 0)}

\* the sequences of at most n elements of S
RECURSIVE SeqsUpTo(_, _)
SeqsUpTo(S, n) ==
    IF n = 0 THEN {<<>>}
    ELSE LET shorter == SeqsUpTo(S, n - 1)
         IN  shorter \cup {Append(s, a) : s \in shorter, a \in S}

\* the server's items are numbered from 1; with skip s the page starts at
\* item s + 1
Items(s, n) == [i \in 1..n |-> s + i]

\* a paged server holding the given page sizes
ExamplePages == <<500, 500, 137>>

ExampleScript == [i \in 1..Len(ExamplePages) |-> Answer("list", ExamplePages[i])]

\* the server's answer to the i-th page request
AnswerAt(i) == IF i <= Len(script) THEN script[i] ELSE Answer("list", 0)

\* list_images_page(skip = s): the page for answer a
list_images_page(a, s) == IF a.kind = "list" THEN Items(s, a.n) ELSE <<>>

PagesIdle ==
    /\ take = 1
    /\ skip = 0
    /\ all_items = <<>>
    /\ lpc = "idle"
    /\ l_ret = <<>>
    /\ script = <<>>
    /\ requested = <<>>

PagesInit ==
    /\ \/ /\ take \in 1..MaxTake
          /\ script \in SeqsUpTo(AnswersOfSize(take), MaxPages)
       \/ /\ take = DefaultTake
          /\ script = ExampleScript
    /\ skip = 0
    /\ all_items = <<>>
    /\ lpc = "idle"
    /\ l_ret = <<>>
    /\ requested = <<>>

\* list_images(po, folder, take=take): all_items = []; skip = 0
ListCall ==
    /\ lpc = "idle"
    /\ lpc' = "page"
    /\ all_items' = <<>>
    /\ skip' = 0
    /\ UNCHANGED <<notPages, take, l_ret, script, requested>>

\* one pass of the while True loop
ListPage_StopsOnlyWhenEmpty ==
    /\ lpc = "page"
    /\ requested' = Append(requested, skip)
    /\ LET page == list_images_page(AnswerAt(Len(requested) + 1), skip)
       IN  IF page = <<>>
             THEN /\ lpc' = "done"
                  /\ UNCHANGED <<all_items, skip>>
             ELSE /\ all_items' = all_items \o page
                  /\ lpc' = "page"
                  /\ skip' = skip + take
    /\ UNCHANGED <<notPages, take, l_ret, script>>

\* one pass of the while True loop: page = list_images_page(skip, take);
\* if not page: break; all_items.extend(page); if len(page) < take: break;
\* skip += take
ListPage ==
    /\ lpc = "page"
    /\ requested' = Append(requested, skip)
    /\ LET page == list_images_page(AnswerAt(Len(requested) + 1), skip)
       IN  IF page = <<>>
             THEN /\ lpc' = "done"
                  /\ UNCHANGED <<all_items, skip>>
             ELSE /\ all_items' = all_items \o page
                  /\ IF Len(page) < take
                       THEN lpc' = "done" /\ UNCHANGED skip
                       ELSE lpc' = "page" /\ skip' = skip + take
    /\ UNCHANGED <<notPages, take, l_ret, script>>

\* return all_items
ListReturn ==
    /\ lpc = "done"
    /\ lpc' = "returned"
    /\ l_ret' = all_items
    /\ UNCHANGED <<notPages, take, skip, all_items, script, requested>>

ListNext == ListCall \/ ListPage \/ ListReturn

\* ------------------------------------------------------------------------
\* main: one inference thread per configured camera
\* ------------------------------------------------------------------------
Cameras == 1..NumCameras

\* What can go wrong when a camera is brought up: nothing; an error in the
\* main thread's own statements for it (camera["url"], camera["po"],
\* ApiController(...), thread.start()); an error in the thread before its
\* loop (loading the models, BufferedVideoStream(cam_url, ...) rejecting the
\* backend name).
Faults == {"none", "in_main", "in_thread"}

MainIdle ==
    /\ m_pc = "idle"
    /\ m_next = 1
    /\ stop_ev = FALSE
    /\ cam_fault = [c \in Cameras |-> "none"]
    /\ cam_pc = [c \in Cameras |-> "unstarted"]
    /\ cancelled = {}
    /\ interrupted = FALSE

\* stop_ev = threading.Event(); for camera in config["cameras"]:
MainInit ==
    /\ m_pc = "for"
    /\ m_next = 1
    /\ stop_ev = FALSE
    /\ cam_fault \in [Cameras -> Faults]
    /\ cam_pc = [c \in Cameras |-> "unstarted"]
    /\ cancelled = {}
    /\ interrupted = FALSE

\* the process ends when the main thread does: every inference thread is a
\* daemon thread and is dropped where it stands
ProcessExit ==
    [c \in Cameras |->
        IF cam_pc[c] \in {"setup", "loop", "finally"} THEN "killed"
                                                      ELSE cam_pc[c]]

\* one pass of the for loop: thread = threading.Thread(target=run_inference,
\* args=(camera["url"], camera["po"], ..., ApiController(...), ..., stop_ev),
\* daemon=True); thread.start(). Nothing catches what these raise.
MainStartCamera ==
    /\ m_pc = "for"
    /\ m_next \in Cameras
    /\ IF cam_fault[m_next] = "in_main"
         THEN /\ m_pc' = "raised"
              /\ cam_pc' = ProcessExit
              /\ UNCHANGED m_next
         ELSE /\ cam_pc' = [cam_pc EXCEPT ![m_next] = "setup"]
              /\ m_next' = m_next + 1
              /\ UNCHANGED m_pc
    /\ UNCHANGED <<notMain, stop_ev, cam_fault, cancelled, interrupted>>

\* the for loop is exhausted: try: while True: time.sleep(5)
MainSleep ==
    /\ m_pc = "for"
    /\ m_next \notin Cameras
    /\ m_pc' = "sleep"
    /\ UNCHANGED <<notMain, m_next, stop_ev, cam_fault, cam_pc, cancelled,
                   interrupted>>

\* KeyboardInterrupt: inside the try it is caught (logger.info) and main
\* returns; in the for loop nothing catches it. Either way the main thread
\* ends.
MainInterrupt ==
    /\ m_pc \in {"for", "sleep"}
    /\ interrupted' = TRUE
    /\ m_pc' = IF m_pc = "sleep" THEN "returned" ELSE "raised"
    /\ cam_pc' = ProcessExit
    /\ UNCHANGED <<notMain, m_next, stop_ev, cam_fault, cancelled>>

MainThreadNext == MainStartCamera \/ MainSleep \/ MainInterrupt

\* run_inference before its loop: models, classifier, stream and watcher
CamSetup(c) ==
    /\ cam_pc[c] = "setup"
    /\ cam_pc' = [cam_pc EXCEPT ![c] = IF cam_fault[c] = "in_thread"
                                         THEN "crashed" ELSE "loop"]
    /\ UNCHANGED <<notMain, m_pc, m_next, stop_ev, cam_fault, cancelled,
                   interrupted>>

\* while not stop_event.is_set(): with the event main passed, stop_ev
CamLoopExit(c) ==
    /\ cam_pc[c] = "loop"
    /\ stop_ev
    /\ cam_pc' = [cam_pc EXCEPT ![c] = "finally"]
    /\ UNCHANGED <<notMain, m_pc, m_next, stop_ev, cam_fault, cancelled,
                   interrupted>>

\* finally: stream.pause(); stream.stop(); watcher.stop(); extractor.close()
CamFinally(c) ==
    /\ cam_pc[c] = "finally"
    /\ cam_pc' = [cam_pc EXCEPT ![c] = "done"]
    /\ UNCHANGED <<notMain, m_pc, m_next, stop_ev, cam_fault, cancelled,
                   interrupted>>

\* someone cancels camera c's orchestrator: sets the stop event its
\* run_inference was given
CancelCamera(c) ==
    /\ m_pc \in {"for", "sleep"}
    /\ cam_pc[c] = "loop"
    /\ c \notin cancelled
    /\ cancelled' = cancelled \cup {c}
    /\ stop_ev' = TRUE
    /\ UNCHANGED <<notMain, m_pc, m_next, cam_fault, cam_pc, interrupted>>

MainNext ==
    \/ MainThreadNext
    \/ \E c \in Cameras :
          \/ CamSetup(c)
          \/ CamLoopExit(c)
          \/ CamFinally(c)
          \/ CancelCamera(c)

\* ------------------------------------------------------------------------
\* Specifications
\* ------------------------------------------------------------------------
\* ------------------------------------------------------------------------
\* extract_anomaly_polygon (inference_loop.py), from the contours on
\* ------------------------------------------------------------------------
\* Frame sides, and where along a side of n pixels the peak lies.
Sides == {24, 640}
PeakCoords(n) == {0, n \div 2, n - 1}

\* A contour as far as the selection reads it: the side of its bounding
\* rectangle (w = h = s), cv2.mean and the local maximum of the score inside
\* it in hundredths, and whether pointPolygonTest finds maxLoc in it.
Contours ==
    [s : {1, 24}, mean : {50, 60}, local_max : {70, 90}, peak : BOOLEAN]

\* RETR_EXTERNAL contours are disjoint, so at most one contains the global
\* peak, and no score inside another one exceeds the peak's.
Consistent(cs) ==
    \A i, j \in 1..Len(cs) :
        (i # j /\ cs[i].peak) =>
            (~cs[j].peak /\ cs[j].local_max <= cs[i].local_max)

NoPoly == [kind |-> "none", c |-> 0, x1 |-> 0, y1 |-> 0, x2 |-> 0, y2 |-> 0]

ExtractIdle ==
    /\ frame_shape = <<1, 1>>
    /\ maxLoc = <<0, 0>>
    /\ cnts = <<>>
    /\ e_i = 1
    /\ best = 0
    /\ epc = "idle"
    /\ poly = NoPoly

ExtractInit ==
    /\ frame_shape \in Sides \X Sides
    /\ maxLoc \in PeakCoords(frame_shape[2]) \X PeakCoords(frame_shape[1])
    /\ cnts \in {cs \in SeqsUpTo(Contours, MaxContours) : Consistent(cs)}
    /\ e_i = 1
    /\ best = 0
    /\ epc = "for"
    /\ poly = NoPoly

\* the contour passes both filters: (w * h) >= area_min and
\* local_max >= tau_strong
Survives(c) ==
    /\ ~(c.s * c.s * 1000 < frame_shape[2] * frame_shape[1] * MinAreaFrac)
    /\ ~(c.local_max < TauStrong)

\* score = (1 if contains_peak else 0, float(mean_val))
Score(c) == <<IF c.peak THEN 1 ELSE 0, c.mean>>

\* score > best[0], as Python orders tuples
\* (a faulty variant: only the mean scores are compared)
ScoreGreater_MeanOnly(s, b) == s[2] > b[2]

ScoreGreater(s, b) == s[1] > b[1] \/ (s[1] = b[1] /\ s[2] > b[2])

\* int(round(x)) for x = n / 100, as Python rounds: halves to the even side
RoundHundredths(n) ==
    LET q == n \div 100
        r == n % 100
    IN  IF r < 50 THEN q
        ELSE IF r > 50 THEN q + 1
        ELSE IF q % 2 = 0 THEN q ELSE q + 1

\* size = max(min_box_px, int(round(min(H, W) * min_box_frac)))
BoxSize ==
    Max(MinBoxPx,
        RoundHundredths(Min(frame_shape[1], frame_shape[2]) * MinBoxFrac))

\* one iteration of `for c in cnts or []`
ExtractContour ==
    /\ epc = "for"
    /\ e_i <= Len(cnts)
    /\ best' = IF /\ Survives(cnts[e_i])
                  /\ (best = 0 \/ ScoreGreater(Score(cnts[e_i]), Score(cnts[best])))
                 THEN e_i
                 ELSE best
    /\ e_i' = e_i + 1
    /\ UNCHANGED <<notExtract, frame_shape, maxLoc, cnts, epc, poly>>

\* if best is None: the box around the peak
ExtractFallback ==
    /\ epc = "for"
    /\ e_i > Len(cnts)
    /\ best = 0
    /\ LET H  == frame_shape[1]
           W  == frame_shape[2]
           px == maxLoc[1]
           py == maxLoc[2]
           w  == BoxSize
           h  == BoxSize
           x1 == Max(0, Min(px - w \div 2, W - 1))
           y1 == Max(0, Min(py - h \div 2, H - 1))
           x2 == Max(x1 + 1, Min(x1 + w, W))
           y2 == Max(y1 + 1, Min(y1 + h, H))
       IN  poly' = [kind |-> "box", c |-> 0,
                    x1 |-> x1, y1 |-> y1, x2 |-> x2, y2 |-> y2]
    /\ epc' = "done"
    /\ UNCHANGED <<notExtract, frame_shape, maxLoc, cnts, e_i, best>>

\* c = best[1]: the polygon is made from the selected contour
ExtractPolygon ==
    /\ epc = "for"
    /\ e_i > Len(cnts)
    /\ best # 0
    /\ poly' = [NoPoly EXCEPT !.kind = "contour", !.c = best]
    /\ epc' = "done"
    /\ UNCHANGED <<notExtract, frame_shape, maxLoc, cnts, e_i, best>>

ExtractNext ==
    \/ ExtractContour
    \/ ExtractFallback
    \/ ExtractPolygon

InitParts ==
    /\ StreamInit
    /\ WatcherInit
    /\ OrchInit
    /\ HttpInit

InitAll == InitParts /\ PagesIdle /\ MainIdle /\ ExtractIdle

StreamNext == LoopNext \/ ClientNext

WatcherNext == WatcherThreadNext \/ WatcherCallerNext

\* one stream and its caller
InitStream == unit = "stream" /\ InitAll /\ on_change = "none" /\ HttpUnused

Init == InitStream /\ reconnect_backoff = <<DefaultLo, DefaultHi>>

Next == StreamNext

Spec == Init /\ [][Next]_vars

\* one stream with a single-slot buffer, and the reconnect_backoff pairs
InitBackoff == InitStream /\ buffer_size = 1

SpecBackoff == InitBackoff /\ [][Next]_vars

\* one stream with a two-slot buffer and unlimited retries, its pause() and
\* resume() calls marked
InitPause ==
    /\ unit = "stream"
    /\ StreamFields
    /\ marks = [NoMarks EXCEPT !.on = TRUE]
    /\ buffer_size = MaxBufferSize
    /\ max_retries = NoLimit
    /\ reconnect_backoff = <<DefaultLo, DefaultHi>>
    /\ WatcherInit
    /\ OrchInit
    /\ HttpInit
    /\ PagesIdle
    /\ MainIdle
    /\ ExtractIdle
    /\ on_change = "none"
    /\ HttpUnused

SpecPause == InitPause /\ [][Next]_vars

\* one watcher and its caller
InitWatcher ==
    /\ unit = "watcher"
    /\ InitAll
    /\ buffer_size = 1
    /\ max_retries = NoLimit
    /\ reconnect_backoff = <<DefaultLo, DefaultHi>>
    /\ pause_event = TRUE
    /\ HttpUnused

SpecWatcher == InitWatcher /\ [][WatcherNext]_vars

\* the same, with the watcher's thread scheduled fairly: its waits have
\* timeouts and the state request returns
SpecWatcherLive ==
    InitWatcher /\ [][WatcherNext]_vars /\ WF_vars(WatcherThreadNext)

\* one orchestrator: the stream as run_inference constructs it
\* (buffer_size = 1, max_retries = None, start_paused = True)
InitOrch ==
    /\ unit = "orch"
    /\ InitAll
    /\ buffer_size = 1
    /\ max_retries = NoLimit
    /\ reconnect_backoff = <<DefaultLo, DefaultHi>>
    /\ pause_event = TRUE
    /\ on_change = "none"
    /\ HttpUnused

OrchNext == OrchThreadNext \/ OrchEnvNext

SpecOrch == InitOrch /\ [][OrchNext]_vars

\* the same, with the orchestrator's thread scheduled fairly: every call it
\* makes returns (reads and HTTP requests have timeouts, sleeps end)
SpecOrchLive == InitOrch /\ [][OrchNext]_vars /\ WF_vars(OrchThreadNext)

\* one ApiController and the thread that calls its public operations
InitHttp ==
    /\ unit = "http"
    /\ InitAll
    /\ buffer_size = 1
    /\ max_retries = NoLimit
    /\ reconnect_backoff = <<DefaultLo, DefaultHi>>
    /\ pause_event = TRUE
    /\ on_change = "none"
    /\ callers = {"orch"}

SpecHttp == InitHttp /\ [][HttpNext]_vars

\* one ApiController used by a camera's watcher thread and its orchestrator
\* thread at once (main.py:28: one controller per camera)
InitHttp2 ==
    /\ unit = "http"
    /\ InitAll
    /\ buffer_size = 1
    /\ max_retries = NoLimit
    /\ reconnect_backoff = <<DefaultLo, DefaultHi>>
    /\ pause_event = TRUE
    /\ on_change = "none"
    /\ callers = Callers

SpecHttp2 == InitHttp2 /\ [][HttpNext]_vars

\* one call of list_images; each page request returns (every HTTP request
\* has a timeout), so the loop goes on
InitPages ==
    /\ unit = "pages"
    /\ InitParts
    /\ buffer_size = 1
    /\ max_retries = NoLimit
    /\ reconnect_backoff = <<DefaultLo, DefaultHi>>
    /\ pause_event = TRUE
    /\ on_change = "none"
    /\ HttpUnused
    /\ PagesInit
    /\ MainIdle
    /\ ExtractIdle

SpecPages == InitPages /\ [][ListNext]_vars /\ WF_vars(ListNext)

\* main and the inference threads it starts
InitMain ==
    /\ unit = "main"
    /\ InitParts
    /\ buffer_size = 1
    /\ max_retries = NoLimit
    /\ reconnect_backoff = <<DefaultLo, DefaultHi>>
    /\ pause_event = TRUE
    /\ on_change = "none"
    /\ HttpUnused
    /\ PagesIdle
    /\ MainInit
    /\ ExtractIdle

SpecMain == InitMain /\ [][MainNext]_vars

\* one call of extract_anomaly_polygon, from the contours on
InitExtract ==
    /\ unit = "extract"
    /\ InitParts
    /\ buffer_size = 1
    /\ max_retries = NoLimit
    /\ reconnect_backoff = <<DefaultLo, DefaultHi>>
    /\ pause_event = TRUE
    /\ on_change = "none"
    /\ HttpUnused
    /\ PagesIdle
    /\ MainIdle
    /\ ExtractInit

SpecExtract == InitExtract /\ [][ExtractNext]_vars

\* any one of the three units: a stream, a watcher or an orchestrator
InitUnits == Init \/ InitWatcher \/ InitOrch

UnitsNext ==
    \/ unit = "stream" /\ StreamNext
    \/ unit = "watcher" /\ WatcherNext
    \/ unit = "orch" /\ OrchNext

SpecUnits == InitUnits /\ [][UnitsNext]_vars

\* the same, with each background loop scheduled fairly: a thread that can
\* take a step eventually takes one (every sleep, wait with timeout, capture,
\* HTTP and model call returns)
\* fairness is checked with the stream configured as run_inference
\* constructs it (inference_loop.py:183)
InitLive ==
    \/ /\ Init
       /\ buffer_size = 1
       /\ pause_event
       /\ max_retries = NoLimit
    \/ InitWatcher
    \/ InitOrch

SpecLive ==
    /\ InitLive
    /\ [][UnitsNext]_vars
    /\ WF_vars(unit = "stream" /\ LoopNext)
    /\ WF_vars(unit = "watcher" /\ WatcherThreadNext)
    /\ WF_vars(unit = "orch" /\ OrchThreadNext)
\* ========================================================================
\* Properties of BufferedVideoStream
\* ========================================================================

\* C1: a read(timeout=0) issued after pause() has returned and before
\* resume() is called returns None, whatever the capture loop was doing when
\* pause() ran.
C1_PauseClearsStaleness ==
    (obs.op = "read" /\ obs.paused /\ obs.t = 0) => obs.val = NoFrame

\* C2 (as stated): after N >= 1 frames were enqueued with no read(), pause()
\* or stop() in between, the next read() returns the newest of them, never an
\* earlier one -- for every buffer_size.
C2_NextReadIsNewest ==
    (obs.op = "read" /\ obs.n >= 1) => obs.val >= obs.lo

\* C2 (amended): the same for a stream constructed with buffer_size = 1, the
\* default: the next read() returns the newest frame of the sequence (or one
\* enqueued while the read was running), never an earlier one and never None.
C2_NextReadIsNewestSingleSlot ==
    (buffer_size = 1 /\ obs.op = "read" /\ obs.n >= 1) => obs.val >= obs.lo

\* C2 witness: a single-slot stream on which two or more frames were enqueued
\* unread and the read that followed returned the last of them.
C2_Witness ==
    /\ buffer_size = 1
    /\ obs.op = "read"
    /\ obs.n >= 2
    /\ obs.lo >= 2
    /\ obs.val = obs.lo

\* C4: the buffer never holds more than buffer_size frames; the loop never
\* discards the frame it has just captured because the buffer was full (the
\* frame it is about to publish as last_frame is the one it enqueued); and
\* what the loop evicts is older than everything it leaves in the buffer.
C4_BoundedDropOldest ==
    /\ Len(frame_buffer) <= buffer_size
    /\ ~dropped
    /\ pc = "set_last" => lastPub = frame
    /\ \A i \in 1..Len(frame_buffer) : frame_buffer[i] > evicted

\* C4 witness: the loop found the buffer full, evicted the oldest frame and
\* enqueued the one just captured.
C4_Witness ==
    /\ pc = "set_last"
    /\ evicted # NoFrame
    /\ Len(frame_buffer) = buffer_size
    /\ frame_buffer[Len(frame_buffer)] = frame
    /\ frame > evicted

\* C5: read() never returns a frame captured before one that an earlier
\* read() already returned.
C5_CaptureOrder ==
    (obs.op = "read" /\ obs.val # NoFrame) => obs.val >= obs.prev

\* C6: a read() that ran while the backend could not connect (the last
\* connect attempt failed and none has succeeded since, whether the loop is
\* still retrying or has given up) returns None.
C6_AbsentWhileCannotConnect ==
    (obs.op = "read" /\ obs.noconn) => obs.val = NoFrame

\* C8: start() on a stream whose loop is running raises nothing.
C8_StartIdempotent ==
    ~(obs.op = "start" /\ obs.raised /\ obs.alive)
\* ========================================================================
\* Properties of StateWatcher
\* ========================================================================

\* C3: get_state() returns the value the most recent successful poll
\* obtained (FALSE before any): a poll whose state request failed leaves the
\* stored state as it was. (A call made between a successful poll's answer
\* and its being stored is left out.)
C3_StateIsLastGoodPoll ==
    (w_obs.op = "get_state" /\ ~w_obs.mid) => w_obs.val = w_obs.good

\* ========================================================================
\* Properties of the three loops
\* ========================================================================

\* C7: stop() of a stream and stop() of a watcher raise nothing, whatever
\* state the object is in (never started included).
C7_StopNeverRaises ==
    /\ ~(obs.op = "stop" /\ obs.raised)
    /\ ~(w_obs.op = "stop" /\ w_obs.raised)

\* the threads' liveness in terms of their program counters
WatcherAlive == wpc \notin {"unstarted", "done"}

\* C9: a loop that evaluates its condition with its stop signal set begins
\* no further iteration, and once the stop signal of a running loop is set
\* the loop's thread terminates -- for the stream's loop, the watcher's loop
\* and the orchestrator's loop.
C9_StopEndsLoops ==
    /\ [][(stop_event /\ pc = "while") => pc' \in {"while", "cleanup"}]_vars
    /\ [][(w_stop_event /\ wpc \in {"while", "check_stop"})
            => wpc' \in {wpc, "done"}]_vars
    /\ [][(o_stop_event /\ opc = "while") => opc' \in {"while", "finally"}]_vars
    /\ (unit = "stream" /\ stop_event /\ IsAlive) ~> ~IsAlive
    /\ (unit = "watcher" /\ w_stop_event /\ WatcherAlive) ~> ~WatcherAlive
    /\ (unit = "orch" /\ o_stop_event) ~> (opc = "done")

\* C9 witness: a stream whose loop was paused and had a failed connect
\* behind it when it was stopped, and has ended.
C9_Witness ==
    /\ unit = "stream"
    /\ stop_event
    /\ pause_event
    /\ connFailing
    /\ pc = "done"
\* ========================================================================
\* Properties of ApiController
\* ========================================================================

C11_One401OneReauth ==
    \A c \in Callers :
        ret[c].op # "none" =>
            /\ ret[c].hist.reauths <= 1
            /\ ret[c].hist.n401 >= 1 => ret[c].hist.reauths = 1
            /\ (ret[c].hist.authok /\ IsSuccess([status |-> ret[c].hist.a401]))
                   => (ret[c].status = ret[c].hist.a401 /\ IsSuccess(ret[c]))
\* C11, amended: a completed call whose first answer (the answer to the
\* first send, or to the re-send that follows a session rebuild) was 401
\* called authenticate exactly once and re-sent exactly once after it, a
\* call whose first answer was not 401 never re-authenticated -- whatever
\* 401 arrived later -- and when the re-authentication obtained a token and
\* the re-send was answered 2xx, the call returns that answer as a success.
C11_First401OneReauth ==
    \A c \in Callers :
        ret[c].op # "none" =>
            /\ ret[c].hist.reauths <= 1
            /\ ret[c].hist.first = 401 =>
                   /\ ret[c].hist.reauths = 1
                   /\ SendsAt(ret[c].hist, "send401") = 1
            /\ ret[c].hist.first # 401 =>
                   /\ ret[c].hist.reauths = 0
                   /\ SendsAt(ret[c].hist, "send401") = 0
            /\ (ret[c].hist.authok /\ IsSuccess([status |-> ret[c].hist.a401]))
                   => (ret[c].status = ret[c].hist.a401 /\ IsSuccess(ret[c]))

\* C11 witness: a call answered 401, then 401 again after a successful
\* re-authentication, has returned that second 401.
C11_Witness ==
    \E c \in Callers :
        /\ ret[c].op # "none"
        /\ ret[c].hist.first = 401
        /\ ret[c].hist.authok
        /\ ret[c].hist.n401 = 2
        /\ ret[c].hist.reauths = 1
        /\ ret[c].status = 401
C12_SendsCarryLatestToken ==
    \A c \in Callers : ~hist[c].stale /\ ~ret[c].hist.stale
C14_429ClampedSleepOneResend ==
    \A c \in Callers :
        ret[c].op # "none" =>
            LET h == ret[c].hist
                wait == IF h.h429.kind = "int" /\ h.h429.n >= 1
                          THEN (IF h.h429.n > 10 THEN 10 ELSE h.h429.n)
                          ELSE 1
            IN  /\ \A s \in h.sleeps : 1 <= s /\ s <= 10
                /\ h.re429 <= 1
                /\ h.c429 =>
                       /\ h.delay = wait
                       /\ SendsAt(h, "send429") = 1
                       /\ h.h429 = Header("int", 3) => h.delay >= 3
\* C15: in a completed call _request re-sent because of a 5xx at most once,
\* and it did so exactly when the answer its 5xx check examined had a
\* status of 500 or more, the method was POST and the operation passes
\* allow_retry_post (send_frame): never for a GET, never for post_event.
C15_5xxResendOnlyRetryablePost ==
    \A c \in Callers :
        ret[c].op # "none" =>
            LET h == ret[c].hist
            IN  /\ SendsAt(h, "send5xx") <= 1
                /\ SendsAt(h, "send5xx") = 1
                       <=> /\ h.s5xx >= 500
                           /\ ret[c].op = "send_frame"
                /\ ret[c].op \in {"get_state", "list_images_page",
                                  "post_event"}
                       => SendsAt(h, "send5xx") = 0

\* C15 witness: a post_event answered 500 has returned False after its one
\* send.
C15_Witness ==
    \E c \in Callers :
        /\ ret[c].op = "post_event"
        /\ ret[c].hist.s5xx = 500
        /\ ret[c].hist.seq = <<"send1">>
        /\ ret[c].status = 500
        /\ ret[c].value = "false"
\* C16: when the watcher thread and the orchestrator thread were both
\* answered 401 for the same token, they did not each exchange the
\* credentials for a new token: at most one of them obtained one.
C16_ReauthCoalesces ==
    ~ /\ \A c \in Callers : ret[c].op # "none" /\ ret[c].hist.first = 401
      /\ ret["watcher"].hist.tok401 = ret["orch"].hist.tok401
      /\ ret["watcher"].hist.tok401 # NoToken
      /\ \A c \in Callers : ret[c].hist.authok
\* C17: whenever a request was sent, the token field and the Authorization
\* header of the session object the send went through denoted the same
\* token, or both none -- after a re-authentication that failed and after a
\* session rebuild as well.
C17_TokenMatchesHeaderAtSends ==
    \A c \in Callers : ~hist[c].torn /\ ~ret[c].hist.torn
\* ========================================================================
\* Properties of ApiController.list_images
\* ========================================================================

\* the page list_images_page returned to the i-th request of list_images
PageAt(i) == list_images_page(AnswerAt(i), (i - 1) * take)

\* the first k pages, one after the other
RECURSIVE ConcatPages(_)
ConcatPages(k) == IF k = 0 THEN <<>> ELSE ConcatPages(k - 1) \o PageAt(k)

\* C18: list_images requests its pages with skip = 0, take, 2*take, ...;
\* it goes on after every page of at least take items and stops at the first
\* page list_images_page returns with fewer than take items (an empty one
\* included, which is also what a failed page request yields); what it has
\* collected, and returns, is the pages received one after the other. With
\* take = 500 and pages of 500, 500 and 137 items it returns 1137 items
\* after three requests. A call whose server comes to a short page returns.
C18_PagesConcatenatedUntilShort ==
    /\ [](LET k == Len(requested)
          IN  /\ \A i \in 1..k : requested[i] = (i - 1) * take
              /\ all_items = ConcatPages(k)
              /\ \A i \in 1..(k - 1) : Len(PageAt(i)) >= take
              /\ (lpc = "page" /\ k >= 1) => Len(PageAt(k)) >= take
              /\ lpc \in {"done", "returned"} =>
                     (k >= 1 /\ Len(PageAt(k)) < take)
              /\ lpc = "returned" => l_ret = ConcatPages(k)
              /\ (lpc = "returned" /\ take = DefaultTake
                                   /\ script = ExampleScript) =>
                     /\ k = 3
                     /\ Len(l_ret) = 1137
                     /\ l_ret = Items(0, 1137))
    /\ <>(lpc = "returned")

\* C18 witness: the call with take = 500 against pages of 500, 500 and 137
\* items has returned 1137 items after three requests.
C18_Witness ==
    /\ lpc = "returned"
    /\ script = ExampleScript
    /\ requested = <<0, 500, 1000>>
    /\ Len(l_ret) = 1137
\* ========================================================================
\* Properties of run_inference
\* ========================================================================

\* C19: a tick reads a frame, runs inference or submits only if the gate it
\* sampled was true; it calls stream.resume() exactly when the gate is true
\* and was false in the tick before (or there was none), and stream.pause()
\* exactly when the gate is false and was true in the tick before; so
\* whenever the loop is back at its head the stream is paused exactly when
\* the orchestrator is IDLE (was_running false), which is then exactly when
\* the gate of the tick just ended was false.
C19_GateDrivesStream ==
    /\ (tick.read \/ tick.inferred \/ tick.sent = 1) =>
           (tick.gated /\ tick.gate)
    /\ tick.resumed => (tick.gated /\ tick.gate /\ ~tick.prev)
    /\ tick.paused => (tick.gated /\ ~tick.gate /\ tick.prev)
    /\ opc = "while" =>
           /\ pause_event <=> ~was_running
           /\ tick.gated =>
                  /\ tick.resumed <=> (tick.gate /\ ~tick.prev)
                  /\ tick.paused <=> (~tick.gate /\ tick.prev)
                  /\ was_running <=> tick.gate

\* C19 witness: a tick that found the gate false after a tick that found it
\* true has paused the stream and is back at the head of the loop.
C19_Witness ==
    /\ opc = "while"
    /\ tick.gated /\ ~tick.gate /\ tick.prev
    /\ tick.paused
    /\ pause_event /\ ~was_running
\* C20: a tick in which the gate was true and a frame was read has submitted
\* a detection by the time the loop is back at its head exactly if the
\* anomaly score it obtained is at least the detection threshold; no tick
\* submits more than once, and a tick whose score is below the threshold
\* submits nothing. Ticks that an exception ended are left aside here: the
\* property is stated for the ticks that ran to their end.
C20_SubmitIffAtThreshold ==
    /\ tick.sent <= 1
    /\ (tick.inferred /\ o_score < DetectThreshold) => tick.sent = 0
    /\ (opc = "while" /\ tick.gate /\ tick.read /\ tick.frame # NoFrame
                      /\ ~tick.raised) =>
           (tick.sent = 1 <=> o_score >= DetectThreshold)
\* C21: a tick whose score reached the threshold and whose classification
\* raised has, when it is over, submitted the detection without the class
\* fields; the loop then goes on to the next tick. Ticks that an exception
\* ended after the classification are left aside.
C21_ClassificationFailureStillSubmits ==
    /\ (tick.sent = 1 /\ tick.class_failed) => ~tick.with_class
    /\ (opc = "while" /\ tick.class_failed /\ ~tick.raised) => tick.sent = 1
\* C22: a step of a tick that raises takes the loop to its except branch,
\* which logs, sleeps and returns to the head of the loop, from where the
\* next tick starts (or the loop exits because the stop event is set); a
\* submission that failed ends the tick normally; the loop is left only
\* with the stop event set.
C22_TickFailureContained ==
    /\ [][(tick'.raised /\ ~tick.raised) => opc' = "except"]_vars
    /\ [][(opc = "except" /\ opc' # opc) => opc' = "while"]_vars
    /\ [][(tick'.send_failed /\ ~tick.send_failed) => opc' = "while"]_vars
    /\ [][(opc' \in {"finally", "done"} /\ opc \notin {"finally", "done"})
              => o_stop_event]_vars
    /\ (opc = "except") ~> (opc \in {"gate", "finally"})

\* C22 witness: a tick raised, the except branch has slept and the loop is
\* back at its head with the stop event not set.
C22_Witness ==
    /\ opc = "while"
    /\ tick.raised
    /\ ~o_stop_event
\* ========================================================================
\* Properties of main
\* ========================================================================

\* C23: once main has returned because it was interrupted while it kept the
\* process alive, the stop event is set and every inference thread has left
\* its loop and run its finally block (stream and watcher stopped), or had
\* crashed before: none was dropped in the middle of its work.
C23_InterruptStopsAndWaits ==
    (interrupted /\ m_pc = "returned") =>
        /\ stop_ev
        /\ \A c \in Cameras : cam_pc[c] \in {"done", "crashed"}

\* C24: an orchestrator leaves its loop only if it is the one that was
\* cancelled: cancelling one camera's orchestrator does not end another's.
C24_CancelOneCameraOnly ==
    \A c \in Cameras : cam_pc[c] \in {"finally", "done"} => c \in cancelled

\* C25: with no interrupt and no cancellation, once the main thread is past
\* its for loop every camera that has no fault of its own has its inference
\* thread started and running, whatever went wrong with the other cameras.
C25_CameraFailuresIsolated ==
    (~interrupted /\ cancelled = {} /\ m_pc # "for") =>
        \A c \in Cameras :
            cam_fault[c] = "none" => cam_pc[c] \in {"setup", "loop"}
\* ========================================================================
\* Further properties of BufferedVideoStream
\* ========================================================================

\* C26: the background loop is past its `while` without stop() having been
\* called only if max_retries is configured and the retry counter exceeds
\* it; the dead thread is then not alive, the backend is not connected and
\* the counter is retained.
C26_DiesOnlyBeyondMaxRetries ==
    /\ (pc \in {"cleanup", "cleanup_drain", "done"} /\ ~stop_event) =>
           (max_retries # NoLimit /\ retry_count > max_retries)
    /\ (pc = "done" /\ ~stop_event) => (~IsAlive /\ ~is_connected)
\* C27 (as stated): the k-th connect failure in a row is followed by a sleep
\* of min(hi, lo * 2^(k-1)) plus a jitter below 0.3 s; the bases do not
\* decrease from one failure to the next and lie within [lo, hi].
C27_BackoffByConnectFailures ==
    pc = "backoff" =>
        /\ slept.base = Min(reconnect_backoff[2],
                            reconnect_backoff[1] * Pow2(slept.k - 1))
        /\ slept.jitter \in 0..(JitterBound - 1)
        /\ slept.prev # 0 => slept.prev <= slept.base
        /\ reconnect_backoff[1] <= slept.base
        /\ slept.base <= reconnect_backoff[2]

\* C27, amended: a connect failure that leaves the retry counter at n is
\* followed by a sleep of min(hi, lo * 2^(n-1)) plus a jitter below 0.3 s,
\* where the counter counts the connect failures and the mid-stream read
\* failures since the last successful connect (so n is at least the number
\* of connect failures in a row); the bases do not decrease from one connect
\* failure to the next and lie within [lo, hi].
C27_BackoffByRetryCounter ==
    pc = "backoff" =>
        /\ slept.base = Min(reconnect_backoff[2],
                            reconnect_backoff[1] * Pow2(retry_count - 1))
        /\ retry_count >= slept.k /\ slept.k >= 1
        /\ slept.jitter \in 0..(JitterBound - 1)
        /\ slept.prev # 0 => slept.prev <= slept.base
        /\ reconnect_backoff[1] <= slept.base
        /\ slept.base <= reconnect_backoff[2]

\* C27 witness: the second connect failure in a row sleeps the cap, not
\* twice the first delay.
C27_Witness ==
    /\ pc = "backoff"
    /\ slept.k = 2
    /\ slept.prev = reconnect_backoff[1]
    /\ slept.base = reconnect_backoff[2]
    /\ slept.base < 2 * slept.prev
\* ========================================================================
\* Further properties of StateWatcher
\* ========================================================================

\* C28: with a callback configured, on_change has been invoked once for
\* every change of _state, with the value stored, and not otherwise (while
\* an invocation is under way it is the one for the latest change); so the
\* invocations carry alternating values, beginning with True.
C28_OnChangeOncePerChange ==
    on_change # "none" =>
        /\ IF /\ wpc = "callback" \/ (wpc = "unlock" /\ changed)
              /\ Len(cb_calls) < MaxPolls
             THEN changes = Append(cb_calls, new_state)
             ELSE changes = cb_calls
        /\ \A i \in 1..Len(cb_calls) : cb_calls[i] = (i % 2 = 1)

\* C28 witness: three polls, two changes of state, two invocations.
C28_Witness ==
    /\ on_change # "none"
    /\ wpc = "while"
    /\ polls = 3
    /\ cb_calls = <<TRUE, FALSE>>
    /\ changes = cb_calls
\* C29: the thread's first step after start() is the poll; every later poll
\* is entered from the stop check that follows a wait on the wake event and
\* its clearing; and once stop() has set the stop event a wait that returns
\* is followed by no poll.
C29_PollFirstThenWaitBeforeEach ==
    /\ [][(wpc = "unstarted" /\ wpc' # wpc) => wpc' = "poll"]_vars
    /\ [][(wpc' = "poll" /\ wpc # "poll") =>
              (wpc = "unstarted" \/ (wpc = "check_stop" /\ ~w_stop_event))]_vars
    /\ [][(wpc' = "check_stop" /\ wpc # wpc') => wpc = "clear"]_vars
    /\ [][(wpc' = "clear" /\ wpc # wpc') => wpc = "wait"]_vars
    /\ [][(wpc = "check_stop" /\ w_stop_event /\ wpc' # wpc) => wpc' = "done"]_vars

\* C29 witness: the first poll is over and, after a wait, the second is
\* being issued.
C29_Witness ==
    /\ wpc = "poll"
    /\ polls = 1
    /\ ~w_stop_event
\* C30: when a poll whose state request did not succeed is over, the
\* failure has been counted in consecutive_failures (and the backoff wait,
\* which the same branch makes, has been made); a poll whose request
\* succeeded leaves the counter at 0.
C30_FailedPollBacksOff ==
    (wpc = "while" /\ polls >= 1) =>
        (IF poll_good THEN consecutive_failures = 0
                      ELSE consecutive_failures >= 1)
\* C31: a read() that follows a pause() and then a resume(), made when a
\* frame captured after that resume() has been published, returns a frame
\* captured after the pause() was called.
C31_FreshAfterResume ==
    (/\ obs.op = "read"
     /\ obs.val # NoFrame
     /\ marks.pause # NoMark
     /\ marks.resume # NoMark
     /\ obs.pub > marks.resume) => obs.val > marks.pause
\* C32: no step of pause() and no resume() changes the backend (handle and
\* is_connected); a loop that is at the top of an iteration while the pause
\* signal is set stays there (or leaves on stop), so it issues no connect()
\* and no grab(); and connect() is entered only on a backend that reports
\* disconnected, so after resume() a connected backend is grabbed from
\* without a new connect().
C32_PauseKeepsBackend ==
    [][/\ (cpc' # cpc /\ (cpc' \in {"pause_clear", "pause_drain"}
                           \/ cpc = "pause_drain")) => UNCHANGED bvars
       /\ (pause_event /\ ~pause_event') => UNCHANGED bvars
       /\ (pause_event /\ pc \in {"while", "check_pause", "pause_sleep"})
             => pc' \in {"while", "check_pause", "pause_sleep", "cleanup"}
       /\ (pc # "connect" /\ pc' = "connect") => ~is_connected
       /\ (pc = "check_conn" /\ pc' # pc /\ is_connected) => pc' = "grab"]_vars

\* a paused loop that sleeps at the top of its iteration, after it captured
\* a frame, with the backend still open and connected
C32_Witness ==
    /\ pausedG
    /\ pause_event
    /\ pc = "pause_sleep"
    /\ captured >= 1
    /\ is_connected
    /\ cap
\* C33: the contour the polygon is made from passed the filters and is
\* maximal among those that did: if any of them contains the global peak it
\* does, none with the same containment has a higher mean score, and none
\* with the same containment and mean was encountered before it. A contour
\* is selected whenever one passed the filters.
C33_PeakThenMeanThenFirst ==
    epc = "done" =>
        LET passed == {j \in 1..Len(cnts) : Survives(cnts[j])}
        IN  /\ (passed # {}) <=> (poly.kind = "contour")
            /\ poly.kind = "contour" =>
                 /\ poly.c \in passed
                 /\ \A j \in passed :
                      /\ cnts[j].peak => cnts[poly.c].peak
                      /\ (cnts[j].peak = cnts[poly.c].peak)
                            => cnts[j].mean <= cnts[poly.c].mean
                      /\ (/\ cnts[j].peak = cnts[poly.c].peak
                          /\ cnts[j].mean = cnts[poly.c].mean) => poly.c <= j

\* the selected contour contains the peak; one that passed the filters too
\* does not, and is larger with a higher mean score
C33_Witness ==
    /\ epc = "done"
    /\ poly.kind = "contour"
    /\ cnts[poly.c].peak
    /\ \E j \in 1..Len(cnts) :
          /\ Survives(cnts[j])
          /\ ~cnts[j].peak
          /\ cnts[j].mean > cnts[poly.c].mean
          /\ cnts[j].s > cnts[poly.c].s

\* C34: in a frame that has room for it, the box returned when no contour
\* passed the filters is a square of side
\* max(minBoxPx, round(minBoxFrac * min(H, W))) inside the frame.
C34_FallbackBoxFullSize ==
    (/\ epc = "done"
     /\ poly.kind = "box"
     /\ BoxSize <= frame_shape[1]
     /\ BoxSize <= frame_shape[2]) =>
        /\ poly.x2 - poly.x1 = BoxSize
        /\ poly.y2 - poly.y1 = BoxSize
        /\ 0 <= poly.x1 /\ poly.x2 <= frame_shape[2]
        /\ 0 <= poly.y1 /\ poly.y2 <= frame_shape[1]
C36_OnlyLoopMutatesBackendAndCache ==
    [][(/\ pc \in {"grab_read", "push_full", "push_get", "push_put",
                   "set_last"}
        /\ cpc' # cpc) => UNCHANGED <<bvars, last_frame>>]_vars
\* C37: the loop's step on a grab() that yielded no frame, with
\* the backend reporting disconnected, closes the backend, adds one to the
\* retry counter and begins the mini sleep (lo plus a jitter below 0.3 s);
\* with the backend reporting connected it changes neither the backend nor
\* the counter and only yields. After the mini sleep the backend is still
\* closed, and an iteration that finds it so goes to connect().
C37_ReadFailureReconnects ==
    /\ [][(pc = "grab_none" /\ pc' # pc) =>
            IF ~is_connected
              THEN /\ retry_count' = retry_count + 1
                   /\ ~cap' /\ ~is_connected'
                   /\ pc' = "mini_backoff"
                   /\ slept'.mini = reconnect_backoff[1]
                   /\ slept'.jitter \in 0..(JitterBound - 1)
              ELSE /\ pc' = "yield"
                   /\ UNCHANGED <<retry_count, bvars, slept>>]_vars
    /\ [][(pc = "mini_backoff" /\ pc' # pc) =>
            (pc' = "while" /\ ~is_connected' /\ ~cap')]_vars
    /\ [][(pc = "check_conn" /\ pc' # pc /\ ~is_connected) =>
            pc' = "connect"]_vars
\* C38: while on_change runs the watcher's thread does not hold the lock
\* and the stored state is the new one; a callback that calls get_state()
\* on the watcher gets the new state, and every callback returns to
\* _poll_once (no deadlock); the step of a callback, raising or not, leaves
\* the stored state alone and is followed by the rest of the poll, after
\* which the loop goes on.
C38_CallbackOutsideLock ==
    /\ [](wpc = "callback" => (w_lock # "watcher" /\ w_state = new_state))
    /\ [][(wpc = "callback" /\ wpc' # wpc) =>
            /\ wpc' = "poll_ok"
            /\ UNCHANGED w_state
            /\ on_change = "reads" => cb_seen' = <<new_state>>]_vars
    /\ [][(wpc = "poll_ok" /\ wpc' # wpc) =>
            (wpc' = "while" /\ UNCHANGED w_state)]_vars
    /\ (wpc = "callback") ~> (wpc = "while")

\* C38 witness: a callback that called get_state() saw the new state, TRUE,
\* and the loop has gone on to its next wait
C38_Witness ==
    /\ on_change = "reads"
    /\ cb_seen = <<TRUE>>
    /\ cb_calls = <<TRUE>>
    /\ w_state
    /\ w_lock = "free"
    /\ wpc = "wait"

\* C39: a successful connect leaves the retry counter at 0; a failed
\* connect and a read failure on a backend that reports disconnected add
\* exactly one to it; nothing else changes it; with max_retries configured
\* the counter never exceeds it, and the step that brings the counter to
\* max_retries takes the loop out of its `while`.
C39_RetryCounter ==
    /\ [](max_retries # NoLimit => retry_count <= max_retries)
    /\ [][(pc = "connect_open" /\ pc' = "grab") => retry_count' = 0]_vars
    /\ [][(pc = "connect_open" /\ pc' \in {"backoff", "cleanup"})
            => retry_count' = retry_count + 1]_vars
    /\ [][(pc = "grab_none" /\ pc' # pc /\ ~is_connected)
            => retry_count' = retry_count + 1]_vars
    /\ [][retry_count' # retry_count
            => (\/ pc = "connect_open"
                \/ pc = "grab_none" /\ ~is_connected)]_vars
    /\ [][(retry_count' # retry_count /\ retry_count' = max_retries)
            => pc' = "cleanup"]_vars

\* C39 witness: a stream with max_retries = 2 lost the connection in a read
\* after a frame, failed to reconnect, and has ended with the counter at 2.
C39_Witness ==
    /\ max_retries = 2
    /\ retry_count = 2
    /\ captured >= 1
    /\ connFailing
    /\ ~stop_event
    /\ pc = "done"
\* C40: when stop() has run on a started stream (no stop() is under way)
\* and the loop's thread has ended, the backend is closed and disconnected
\* and the frame buffer is empty -- also when the thread ended after stop()
\* had returned, having connected or enqueued a frame in between; and once
\* that is so after the loop's end, no step changes it.
C40_StoppedStreamStaysClean ==
    /\ [](/\ stop_event
          /\ pc \in {"done", "crashed"}
          /\ cpc \notin {"stop_release", "stop_join", "stop_cleanup",
                         "stop_drain"}
          => (~cap /\ ~is_connected /\ frame_buffer = <<>>))
    /\ [][(/\ stop_event
           /\ pc \in {"done", "crashed"}
           /\ ~cap /\ ~is_connected /\ frame_buffer = <<>>)
          => (~cap' /\ ~is_connected' /\ frame_buffer' = <<>>)]_vars

\* C40 witness: stop() has returned, the loop enqueued a frame after stop()
\* had drained the buffer and then ended; the buffer is empty and the
\* backend closed.
C40_Witness ==
    /\ obs.op = "stop"
    /\ ~obs.raised
    /\ cpc = "idle"
    /\ pc = "done"
    /\ nPub >= 1
    /\ frame_buffer = <<>>
    /\ ~cap
    /\ ~is_connected
====
